---- MODULE Spec2Model ----
(***************************************************************************)
(* A model of ndata: the slot arena (UsizeMap), the reference-counted     *)
(* heap (Heap), the three stores (DataObject, DataArray, DataBytes) with   *)
(* their pending-decrement queues and garbage collection, and the         *)
(* reader-writer spinlock SharedMutex.                                     *)
(*                                                                         *)
(* Spec      : one host thread driving the three stores (every store       *)
(*             operation is one action; the heap locks are uncontended).   *)
(* SpecMutex : threads taking lock()/read() on SharedMutex instances, one  *)
(*             atomic memory access per step.                              *)
(***************************************************************************)
EXTENDS Integers, Sequences, FiniteSets, TLC

VARIABLES
    oheap,      \* OBJECT_HEAP : Heap<HashMap<String, Data>>
    aheap,      \* ARRAY_HEAP  : Heap<Vec<Data>>
    bheap,      \* BH          : Heap<DataStream>
    odrop,      \* OBJECT_DROP_QUEUE : Vec<usize>
    adrop,      \* ARRAY_DROP_QUEUE  : Vec<usize>
    bdrop,      \* BD                : Vec<usize>
    held,       \* the live handles the host holds: kind -> index -> how many
    ret,        \* the Data the latest get_property returned (DNull after any other call)
    lastOp,     \* the latest call when it was a get_property, or a set_property or
                \* remove_property that took a handle value out of a container,
                \* with what the store was like before the call
    steps,      \* how many calls the host has made
    limit,      \* how many calls the host makes at most
    mtx,        \* the SharedMutex instances: state, lock_ptr, data_ptr
    cell,       \* the memory the pointers address: lock words and payloads
    thr,        \* the threads: position in lock()/read()/the guarded section, locals
    mhist       \* the latest set/mirror call with its outcome, the payload each
                \* successful set stored, and the instance the latest write went through

storeVars == <<oheap, aheap, bheap, odrop, adrop, bdrop, held, ret, lastOp, steps, limit>>
mutexVars == <<mtx, cell, thr, mhist>>
vars == <<oheap, aheap, bheap, odrop, adrop, bdrop, held, ret, lastOp, steps, limit, mtx, cell, thr, mhist>>

----------------------------------------------------------------------------
(* Bounds of the store model *)

MaxSlots == 2     \* entries a heap may hold at once
MaxLen   == 2     \* elements of one array
MaxQueue == 2     \* entries of one pending-decrement queue
MaxHeld  == 2     \* live handles the host holds at once
MaxSteps == 5     \* calls the host makes in Spec
MaxObjBytesSteps == 9   \* calls the host makes in SpecObjBytes

Keys == {"a", "b"}
KeyOrders == {<<"a", "b">>, <<"b", "a">>}
Kinds == {"DObject", "DArray", "DBytes"}
Slots == 0 .. (MaxSlots - 1)

----------------------------------------------------------------------------
(* Data (src/src/data.rs) *)

DObject(i) == [t |-> "DObject", v |-> i]
DArray(i)  == [t |-> "DArray", v |-> i]
DBytes(i)  == [t |-> "DBytes", v |-> i]
DInt(n)    == [t |-> "DInt", v |-> n]
DNull      == [t |-> "DNull", v |-> 0]
\* Option::None of a map lookup: the key is not in the HashMap
Absent     == [t |-> "None", v |-> 0]

Handle(k, i) == [t |-> k, v |-> i]
IsHandle(d) == d.t \in Kinds
Scalars == {DInt(5)}

\* a clone that loses the index of a handle value
DataCloneNoIndex(d) ==
    IF d.t = "DInt" THEN DInt(d.v) ELSE DNull

\* impl Clone for Data
DataClone(d) ==
    IF d.t = "DInt" THEN DInt(d.v)
    ELSE IF d.t = "DObject" THEN DObject(d.v)
    ELSE IF d.t = "DArray" THEN DArray(d.v)
    ELSE IF d.t = "DBytes" THEN DBytes(d.v)
    ELSE DNull

----------------------------------------------------------------------------
(* UsizeMap (src/src/usizemap.rs): Option<T> is a sequence of length 0 or 1 *)

None == <<>>
Some(e) == <<e>>

UMNew == [data |-> <<>>, empty |-> <<>>, count |-> 0]

UMContainsKey(m, key) == key < Len(m.data) /\ m.data[key + 1] # None

UMGet(m, key) == m.data[key + 1][1]

\* the index the next insert returns
UMNextIndex(m) ==
    IF m.empty # <<>> THEN m.empty[Len(m.empty)] ELSE Len(m.data)

\* an insert that leaves the index it reuses in the free list
UMInsertKeepFree(m, element) ==
    IF m.empty # <<>>
    THEN [m EXCEPT !.data[m.empty[Len(m.empty)] + 1] = Some(element)]
    ELSE [m EXCEPT !.data = Append(@, Some(element)), !.count = @ + 1]

\* an insert that always appends
UMInsertAppend(m, element) ==
    [m EXCEPT !.data = Append(@, Some(element)), !.count = @ + 1]

UMInsert(m, element) ==
    IF m.empty # <<>>
    THEN LET index == m.empty[Len(m.empty)]
             popped == SubSeq(m.empty, 1, Len(m.empty) - 1)
         IN  IF index < Len(m.data)
             THEN [data  |-> [m.data EXCEPT ![index + 1] = Some(element)],
                   empty |-> popped,
                   count |-> m.count + 1]
             ELSE [data  |-> [k \in 1 .. (index + 1) |->
                                 IF k <= Len(m.data) THEN m.data[k]
                                 ELSE IF k = index + 1 THEN Some(element)
                                 ELSE None],
                   empty |-> popped,
                   count |-> m.count + 1]
    ELSE [data  |-> Append(m.data, Some(element)),
          empty |-> m.empty,
          count |-> m.count + 1]

\* a remove that frees the key whether or not the slot held a value
UMRemoveAlways(m, key) ==
    IF key < Len(m.data)
    THEN [data  |-> [m.data EXCEPT ![key + 1] = None],
          empty |-> Append(m.empty, key),
          count |-> IF m.data[key + 1] # None THEN m.count - 1 ELSE m.count]
    ELSE m

\* a remove that forgets the index it has emptied
UMRemoveNoFree(m, key) ==
    IF UMContainsKey(m, key)
    THEN [m EXCEPT !.data[key + 1] = None, !.count = @ - 1]
    ELSE m

UMRemove(m, key) ==
    IF UMContainsKey(m, key)
    THEN [data  |-> [m.data EXCEPT ![key + 1] = None],
          empty |-> Append(m.empty, key),
          count |-> m.count - 1]
    ELSE m

UMLen(m) == m.count

UMClear(m) == [data |-> <<>>, empty |-> <<>>, count |-> 0]

UMKeys(m) == {k \in 0 .. (Len(m.data) - 1) : m.data[k + 1] # None}

----------------------------------------------------------------------------
(* Heap (src/src/heap.rs): a UsizeMap of Blob {data, count} *)

HeapNew == UMNew

\* a push that starts the count at zero
HeapPushUncounted(h, d) == UMInsert(h, [data |-> d, count |-> 0])

HeapPush(h, d) == UMInsert(h, [data |-> d, count |-> 1])

HeapContainsKey(h, index) == UMContainsKey(h, index)

HeapGet(h, index) == UMGet(h, index).data

HeapCount(h, index) == UMGet(h, index).count

\* panics on an index that is not live: callers guard with HeapContainsKey
HeapIncr(h, index) ==
    [h EXCEPT !.data[index + 1] = Some([@[1] EXCEPT !.count = @ + 1])]

\* a decr that removes the entry one reference early
HeapDecrEarly(h, index) ==
    IF HeapCount(h, index) <= 2
    THEN UMRemove(h, index)
    ELSE [h EXCEPT !.data[index + 1] = Some([@[1] EXCEPT !.count = @ - 1])]

HeapDecr(h, index) ==
    IF HeapCount(h, index) = 1
    THEN UMRemove(h, index)
    ELSE [h EXCEPT !.data[index + 1] = Some([@[1] EXCEPT !.count = @ - 1])]

HeapKeys(h) == UMKeys(h)

\* a write through the &mut T that Heap::get returns
HeapPut(h, index, d) ==
    [h EXCEPT !.data[index + 1] = Some([@[1] EXCEPT !.data = d])]

----------------------------------------------------------------------------
(* The three stores.  A store operation is an operator on the record      *)
(*   s = [oh, ah, bh : the heaps;  od, ad, bd : the pending queues]        *)
(* so that handlers compose the way the code calls them.                   *)

EmptyMap == [k \in Keys |-> Absent]          \* HashMap::new()
NewStream == [data |-> <<>>, len |-> 0, read_open |-> TRUE,
              write_open |-> TRUE, mime_type |-> None]   \* DataStream::new()

HeapOf(s, k) ==
    IF k = "DObject" THEN s.oh ELSE IF k = "DArray" THEN s.ah ELSE s.bh

\* impl Drop for DataObject / DataArray / DataBytes: push the index on the
\* store's pending-decrement queue
\* a drop that decrements at once instead of queueing
DropObjectNow(s, i) == [s EXCEPT !.oh = HeapDecr(@, i)]

DropObject(s, i) == [s EXCEPT !.od = Append(@, i)]
DropArray(s, i)  == [s EXCEPT !.ad = Append(@, i)]
DropBytes(s, i)  == [s EXCEPT !.bd = Append(@, i)]

DropHandle(s, k, i) ==
    IF k = "DObject" THEN DropObject(s, i)
    ELSE IF k = "DArray" THEN DropArray(s, i)
    ELSE DropBytes(s, i)

\* "match old_data { DObject(i) => { let _ = DataObject { data_ref: i }; } ... }":
\* the handle rebuilt around a value taken out of a container is dropped at once
DropOld(s, old) ==
    IF IsHandle(old) THEN DropHandle(s, old.t, old.v) ELSE s

\* Heap::incr on the heap of the kind of a handle-valued Data
IncrTarget(s, d) ==
    IF d.t = "DObject" THEN [s EXCEPT !.oh = HeapIncr(@, d.v)]
    ELSE IF d.t = "DArray" THEN [s EXCEPT !.ah = HeapIncr(@, d.v)]
    ELSE IF d.t = "DBytes" THEN [s EXCEPT !.bh = HeapIncr(@, d.v)]
    ELSE s

\* Heap::decr on the heap of the kind of a handle-valued Data (rollback paths)
DecrTarget(s, d) ==
    IF d.t = "DObject" THEN [s EXCEPT !.oh = HeapDecr(@, d.v)]
    ELSE IF d.t = "DArray" THEN [s EXCEPT !.ah = HeapDecr(@, d.v)]
    ELSE IF d.t = "DBytes" THEN [s EXCEPT !.bh = HeapDecr(@, d.v)]
    ELSE s

TargetLive(s, d) == IsHandle(d) => HeapContainsKey(HeapOf(s, d.t), d.v)

\* DataObject::new / DataArray::new / DataBytes::new: push an empty container
NewIndex(s, k) == UMNextIndex(HeapOf(s, k))

StoreNew(s, k) ==
    IF k = "DObject" THEN [s EXCEPT !.oh = HeapPush(@, EmptyMap)]
    ELSE IF k = "DArray" THEN [s EXCEPT !.ah = HeapPush(@, <<>>)]
    ELSE [s EXCEPT !.bh = HeapPush(@, NewStream)]

\* a get that hands out the handle without the increment
StoreGetNoIncr(s, k, i) == s

\* DataObject::get / DataArray::get / DataBytes::get and the Clone impls:
\* incr, then a new live handle on the same index
StoreGet(s, k, i) == IncrTarget(s, Handle(k, i))

\* DataObject::get_property: a clone of the stored Data (panics on a missing key)
ObjGetProperty(s, ref, key) == DataClone(HeapGet(s.oh, ref)[key])

\* a set_property that inserts without raising the new target's count
ObjSetPropertyNoIncr(s, ref, key, data) ==
    LET old == HeapGet(s.oh, ref)[key]
        s2  == [s EXCEPT !.oh = HeapPut(@, ref, [HeapGet(@, ref) EXCEPT ![key] = data])]
    IN  DropOld(s2, old)

\* DataObject::set_property
ObjSetProperty(s, ref, key, data) ==
    LET s1 == IncrTarget(s, data)
        old == HeapGet(s1.oh, ref)[key]
        s2  == [s1 EXCEPT !.oh = HeapPut(@, ref, [HeapGet(@, ref) EXCEPT ![key] = data])]
    IN  IF ~HeapContainsKey(s1.oh, ref)
        THEN \* only the DObject arm takes its increment back
             IF data.t = "DObject" THEN DecrTarget(s1, data) ELSE s1
        ELSE DropOld(s2, old)

\* DataObject::remove_property
ObjRemoveProperty(s, ref, key) ==
    IF ~HeapContainsKey(s.oh, ref) THEN s
    ELSE LET old == HeapGet(s.oh, ref)[key]
             s1  == [s EXCEPT !.oh = HeapPut(@, ref, [HeapGet(@, ref) EXCEPT ![key] = Absent])]
         IN  DropOld(s1, old)

\* DataObject::put_object / put_array / put_bytes: set_property, then the
\* handle passed by value goes out of scope
ObjPutHandle(s, ref, key, k, i) ==
    DropHandle(ObjSetProperty(s, ref, key, Handle(k, i)), k, i)

\* DataArray::get_property (panics on a dead array or id >= len)
ArrGetProperty(s, ref, id) == DataClone(HeapGet(s.ah, ref)[id + 1])

\* DataArray::push_property
ArrPushProperty(s, ref, data) ==
    LET s1 == IncrTarget(s, data)
    IN  IF ~HeapContainsKey(s1.ah, ref)
        THEN \* rollback; for a DArray the second aheap().lock() is taken while
             \* the first guard is alive and never returns: the count stays raised
             IF data.t = "DArray" THEN s1 ELSE DecrTarget(s1, data)
        ELSE [s1 EXCEPT !.ah = HeapPut(@, ref, Append(HeapGet(@, ref), data))]

\* DataArray::push_object / push_array / push_bytes
ArrPushHandle(s, ref, k, i) ==
    DropHandle(ArrPushProperty(s, ref, Handle(k, i)), k, i)

\* DataArray::set_property with id < len (id >= len rolls back and panics)
ArrSetProperty(s, ref, id, data) ==
    LET s1 == IncrTarget(s, data)
    IN  IF ~HeapContainsKey(s1.ah, ref)
        THEN IF data.t = "DArray" THEN s1 ELSE DecrTarget(s1, data)
        ELSE LET vec == HeapGet(s1.ah, ref)
             IN  IF id >= Len(vec)
                 THEN IF data.t = "DArray" THEN s1 ELSE DecrTarget(s1, data)
                 ELSE DropOld([s1 EXCEPT !.ah = HeapPut(@, ref, [vec EXCEPT ![id + 1] = data])],
                              vec[id + 1])

\* Vec::remove(id)
VecRemove(vec, id) ==
    [k \in 1 .. (Len(vec) - 1) |-> IF k <= id THEN vec[k] ELSE vec[k + 1]]

\* DataArray::remove_property (panics on a dead array or id >= len)
ArrRemoveProperty(s, ref, id) ==
    LET vec == HeapGet(s.ah, ref)
    IN  DropOld([s EXCEPT !.ah = HeapPut(@, ref, VecRemove(vec, id))], vec[id + 1])

----------------------------------------------------------------------------
(* Collection: DataObject::delete and DataArray::delete recurse into each  *)
(* other on the pair hp = [oh, ah] of the two locked heaps.                *)

\* HashMap::values() in the iteration order ord (the order is unspecified)
MapValues(map, ord) ==
    SelectSeq([n \in 1 .. Len(ord) |-> map[ord[n]]], LAMBDA d : d # Absent)

\* objects_to_kill / arrays_to_kill: the indices of the values of one kind
KillList(vals, k) ==
    LET sel == SelectSeq(vals, LAMBDA d : d.t = k)
    IN  [n \in 1 .. Len(sel) |-> sel[n].v]

RECURSIVE ObjDelete(_, _, _)
RECURSIVE ArrDelete(_, _, _)
RECURSIVE ObjDeleteAll(_, _, _)
RECURSIVE ArrDeleteAll(_, _, _)

\* "for i in objects_to_kill { DataObject::delete(oheap_guard, i, aheap_guard); }"
ObjDeleteAll(hp, refs, ord) ==
    IF refs = <<>> THEN hp
    ELSE ObjDeleteAll(ObjDelete(hp, Head(refs), ord), Tail(refs), ord)

\* "for i in arrays_to_kill { DataArray::delete(aheap_guard, i, oheap_guard); }"
ArrDeleteAll(hp, refs, ord) ==
    IF refs = <<>> THEN hp
    ELSE ArrDeleteAll(ArrDelete(hp, Head(refs), ord), Tail(refs), ord)

\* DataObject::delete
ObjDelete(hp, data_ref, ord) ==
    IF ~HeapContainsKey(hp.oh, data_ref) THEN hp
    ELSE LET current_count == HeapCount(hp.oh, data_ref)
         IN  IF current_count = 0 THEN hp
             ELSE IF current_count = 1
             THEN LET vals == MapValues(HeapGet(hp.oh, data_ref), ord)
                      objects_to_kill == KillList(vals, "DObject")
                      arrays_to_kill  == KillList(vals, "DArray")
                      h1 == [hp EXCEPT !.oh = HeapDecr(@, data_ref)]
                  IN  ArrDeleteAll(ObjDeleteAll(h1, objects_to_kill, ord),
                                   arrays_to_kill, ord)
             ELSE [hp EXCEPT !.oh = HeapDecr(@, data_ref)]

\* DataArray::delete
ArrDelete(hp, data_ref, ord) ==
    IF ~HeapContainsKey(hp.ah, data_ref) THEN hp
    ELSE LET current_count == HeapCount(hp.ah, data_ref)
         IN  IF current_count = 0 THEN hp
             ELSE IF current_count = 1
             THEN LET vals == HeapGet(hp.ah, data_ref)
                      objects_to_kill == KillList(vals, "DObject")
                      arrays_to_kill  == KillList(vals, "DArray")
                      h1 == [hp EXCEPT !.ah = HeapDecr(@, data_ref)]
                  IN  ArrDeleteAll(ObjDeleteAll(h1, objects_to_kill, ord),
                                   arrays_to_kill, ord)
             ELSE [hp EXCEPT !.ah = HeapDecr(@, data_ref)]

\* DataObject::gc: drain OBJECT_DROP_QUEUE, delete once per queued index
ObjectGc(s, ord) ==
    LET hp == ObjDeleteAll([oh |-> s.oh, ah |-> s.ah], s.od, ord)
    IN  [s EXCEPT !.oh = hp.oh, !.ah = hp.ah, !.od = <<>>]

\* DataArray::gc: drain ARRAY_DROP_QUEUE, delete once per queued index
ArrayGc(s, ord) ==
    LET hp == ArrDeleteAll([oh |-> s.oh, ah |-> s.ah], s.ad, ord)
    IN  [s EXCEPT !.oh = hp.oh, !.ah = hp.ah, !.ad = <<>>]

RECURSIVE BytesDecrAll(_, _)
\* the loop of DataBytes::gc: decr each queued index that is still live
BytesDecrAll(bh, refs) ==
    IF refs = <<>> THEN bh
    ELSE BytesDecrAll(IF HeapContainsKey(bh, Head(refs))
                      THEN HeapDecr(bh, Head(refs)) ELSE bh,
                      Tail(refs))

\* DataBytes::gc
BytesGc(s) == [s EXCEPT !.bh = BytesDecrAll(@, s.bd), !.bd = <<>>]

\* ndata::gc: DataObject::gc(); DataArray::gc(); DataBytes::gc();
NdataGc(s, ord) == BytesGc(ArrayGc(ObjectGc(s, ord), ord))

----------------------------------------------------------------------------
(* Spec: one host thread.  The host owns live handles (held) and calls the *)
(* store operations through them.                                          *)

St == [oh |-> oheap, ah |-> aheap, bh |-> bheap,
       od |-> odrop, ad |-> adrop, bd |-> bdrop]

Commit(s) ==
    /\ oheap' = s.oh /\ aheap' = s.ah /\ bheap' = s.bh
    /\ odrop' = s.od /\ adrop' = s.ad /\ bdrop' = s.bd

QueuesFit(s) ==
    Len(s.od) <= MaxQueue /\ Len(s.ad) <= MaxQueue /\ Len(s.bd) <= MaxQueue

\* the reference count of a handle value's target, 0 when it is not live
CountOf(s, d) ==
    IF HeapContainsKey(HeapOf(s, d.t), d.v) THEN HeapCount(HeapOf(s, d.t), d.v) ELSE 0

\* the (container, slot) places of the stores
Places(s) ==
    {<<"DObject", i, key>> : i \in HeapKeys(s.oh), key \in Keys}
    \cup {<<"DArray", i, n>> : i \in HeapKeys(s.ah), n \in 1 .. MaxLen}

Refers(s, place, d) ==
    IF place[1] = "DObject"
    THEN HeapGet(s.oh, place[2])[place[3]] = d
    ELSE /\ place[3] <= Len(HeapGet(s.ah, place[2]))
         /\ HeapGet(s.ah, place[2])[place[3]] = d

NumRefs(s, d) == Cardinality({place \in Places(s) : Refers(s, place, d)})

NoOp == [op |-> "none", ref |-> 0, key |-> "", id |-> 0, data |-> DNull,
         old |-> DNull, cnew |-> 0, cold |-> 0, sole |-> FALSE, quiet |-> FALSE,
         twice |-> FALSE]

GetRec(op, ref, key, id) ==
    [NoOp EXCEPT !.op = op, !.ref = ref, !.key = key, !.id = id,
                 !.twice = /\ lastOp.op = op /\ lastOp.ref = ref
                           /\ lastOp.key = key /\ lastOp.id = id]

\* old: the handle value the call takes out; data: the value it puts in
\* (DNull for remove_property); sole: the slot held the only reference to
\* old's target; quiet: no decrement was pending
SetRec(op, ref, key, id, data, old) ==
    IF IsHandle(old)
    THEN [NoOp EXCEPT !.op = op, !.ref = ref, !.key = key, !.id = id,
                      !.data = data, !.old = old,
                      !.cnew = IF IsHandle(data) THEN CountOf(St, data) ELSE 0,
                      !.cold = CountOf(St, old),
                      !.sole = held[old.t][old.v] = 0 /\ NumRefs(St, old) = 1,
                      !.quiet = odrop = <<>> /\ adrop = <<>> /\ bdrop = <<>>]
    ELSE NoOp

NoHandles == [k \in Kinds |-> [i \in Slots |-> 0]]

RECURSIVE SumOver(_, _)
SumOver(f, S) ==
    IF S = {} THEN 0
    ELSE LET x == CHOOSE y \in S : TRUE IN f[x] + SumOver(f, S \ {x})

NumHeld == SumOver([k \in Kinds |-> SumOver(held[k], Slots)], Kinds)

Acquire(k, i) == [held EXCEPT ![k][i] = @ + 1]
Release(k, i) == [held EXCEPT ![k][i] = @ - 1]

\* the Data values the host passes: scalars and the indices of the handles
\* it holds (Data::DObject(o.data_ref))
HostValues ==
    Scalars
    \cup {Handle(p[1], p[2]) : p \in {q \in Kinds \X Slots : held[q[1]][q[2]] > 0}}

\* a call that returns no Data and is not recorded
Called ==
    /\ steps < limit
    /\ steps' = steps + 1
    /\ UNCHANGED limit

StoreInit ==
    /\ oheap = HeapNew /\ aheap = HeapNew /\ bheap = HeapNew
    /\ odrop = <<>> /\ adrop = <<>> /\ bdrop = <<>>
    /\ held = NoHandles
    /\ ret = DNull
    /\ lastOp = NoOp
    /\ steps = 0

\* DataObject::new(), DataArray::new(), DataBytes::new()
HostNew(k) ==
    /\ Called
    /\ NumHeld < MaxHeld
    /\ UMNextIndex(HeapOf(St, k)) < MaxSlots
    /\ Commit(StoreNew(St, k))
    /\ held' = Acquire(k, NewIndex(St, k))
    /\ ret' = DNull /\ lastOp' = NoOp

\* clone() of a live handle
HostClone(k, i) ==
    /\ Called
    /\ held[k][i] > 0
    /\ NumHeld < MaxHeld
    /\ Commit(StoreGet(St, k, i))
    /\ held' = Acquire(k, i)
    /\ ret' = DNull /\ lastOp' = NoOp

\* a live handle goes out of scope
HostDrop(k, i) ==
    /\ Called
    /\ held[k][i] > 0
    /\ held' = Release(k, i)
    /\ ret' = DNull /\ lastOp' = NoOp
    /\ LET s2 == DropHandle(St, k, i)
       IN  QueuesFit(s2) /\ Commit(s2)

\* o.get_property(key)
ObjGet(ref, key) ==
    /\ Called
    /\ held["DObject"][ref] > 0
    /\ HeapGet(oheap, ref)[key] # Absent
    /\ ret' = ObjGetProperty(St, ref, key)
    /\ lastOp' = GetRec("o.get_property", ref, key, 0)
    /\ UNCHANGED <<oheap, aheap, bheap, odrop, adrop, bdrop, held>>

\* o.get_object(key) / get_array / get_bytes: get_property(key).object()
ObjGetHandle(ref, key) ==
    /\ Called
    /\ held["DObject"][ref] > 0
    /\ NumHeld < MaxHeld
    /\ LET d == ObjGetProperty(St, ref, key)
       IN  /\ IsHandle(d)
           /\ TargetLive(St, d)
           /\ Commit(StoreGet(St, d.t, d.v))
           /\ held' = Acquire(d.t, d.v)
    /\ ret' = DNull /\ lastOp' = NoOp

\* o.set_property(key, data)
ObjSet(ref, key, data) ==
    /\ Called
    /\ held["DObject"][ref] > 0
    /\ ret' = DNull
    /\ UNCHANGED held
    /\ LET s2 == ObjSetProperty(St, ref, key, data)
       IN  QueuesFit(s2) /\ Commit(s2)
    /\ lastOp' = SetRec("o.set_property", ref, key, 0, data, HeapGet(oheap, ref)[key])

\* o.put_object(key, h) / put_array / put_bytes: the handle h is consumed
ObjPut(ref, key, k, i) ==
    /\ Called
    /\ held["DObject"][ref] > 0
    /\ held[k][i] > (IF k = "DObject" /\ i = ref THEN 1 ELSE 0)
    /\ LET s2 == ObjPutHandle(St, ref, key, k, i)
       IN  QueuesFit(s2) /\ Commit(s2)
    /\ held' = Release(k, i)
    /\ ret' = DNull /\ lastOp' = NoOp

\* o.remove_property(key)
ObjRemove(ref, key) ==
    /\ Called
    /\ held["DObject"][ref] > 0
    /\ LET s2 == ObjRemoveProperty(St, ref, key)
       IN  QueuesFit(s2) /\ Commit(s2)
    /\ lastOp' = SetRec("o.remove_property", ref, key, 0, DNull, HeapGet(oheap, ref)[key])
    /\ ret' = DNull
    /\ UNCHANGED held

\* a.get_property(id)
ArrGet(ref, id) ==
    /\ Called
    /\ held["DArray"][ref] > 0
    /\ id < Len(HeapGet(aheap, ref))
    /\ ret' = ArrGetProperty(St, ref, id)
    /\ lastOp' = GetRec("a.get_property", ref, "", id)
    /\ UNCHANGED <<oheap, aheap, bheap, odrop, adrop, bdrop, held>>

\* a.get_object(id) / get_array / get_bytes: get_property(id).object()
ArrGetHandle(ref, id) ==
    /\ Called
    /\ held["DArray"][ref] > 0
    /\ id < Len(HeapGet(aheap, ref))
    /\ NumHeld < MaxHeld
    /\ LET d == ArrGetProperty(St, ref, id)
       IN  /\ IsHandle(d)
           /\ TargetLive(St, d)
           /\ Commit(StoreGet(St, d.t, d.v))
           /\ held' = Acquire(d.t, d.v)
    /\ ret' = DNull /\ lastOp' = NoOp

\* a.push_property(data)
ArrPush(ref, data) ==
    /\ Called
    /\ held["DArray"][ref] > 0
    /\ Len(HeapGet(aheap, ref)) < MaxLen
    /\ Commit(ArrPushProperty(St, ref, data))
    /\ ret' = DNull /\ lastOp' = NoOp
    /\ UNCHANGED held

\* a.push_object(h) / push_array / push_bytes: the handle h is consumed
ArrPushH(ref, k, i) ==
    /\ Called
    /\ held["DArray"][ref] > 0
    /\ held[k][i] > (IF k = "DArray" /\ i = ref THEN 1 ELSE 0)
    /\ Len(HeapGet(aheap, ref)) < MaxLen
    /\ LET s2 == ArrPushHandle(St, ref, k, i)
       IN  QueuesFit(s2) /\ Commit(s2)
    /\ held' = Release(k, i)
    /\ ret' = DNull /\ lastOp' = NoOp

\* a.set_property(id, data) with id < len
ArrSet(ref, id, data) ==
    /\ Called
    /\ held["DArray"][ref] > 0
    /\ id < Len(HeapGet(aheap, ref))
    /\ ret' = DNull
    /\ UNCHANGED held
    /\ LET s2 == ArrSetProperty(St, ref, id, data)
       IN  QueuesFit(s2) /\ Commit(s2)
    /\ lastOp' = SetRec("a.set_property", ref, "", id, data, HeapGet(aheap, ref)[id + 1])

\* a.remove_property(id) with id < len
ArrRemove(ref, id) ==
    /\ Called
    /\ held["DArray"][ref] > 0
    /\ id < Len(HeapGet(aheap, ref))
    /\ LET s2 == ArrRemoveProperty(St, ref, id)
       IN  QueuesFit(s2) /\ Commit(s2)
    /\ ret' = DNull /\ lastOp' = NoOp
    /\ UNCHANGED held

\* ndata::gc(); ord is the order in which the HashMaps iterate
Gc(ord) ==
    /\ Called
    /\ ret' = DNull /\ lastOp' = NoOp
    /\ UNCHANGED held
    /\ Commit(NdataGc(St, ord))

MutexIdle ==
    /\ mtx = <<>>
    /\ cell = <<>>
    /\ thr = <<>>
    /\ mhist = <<>>

Init == StoreInit /\ MutexIdle /\ limit = MaxSteps

Next ==
    /\ UNCHANGED mutexVars
    /\ \/ \E k \in Kinds : HostNew(k)
       \/ \E k \in Kinds, i \in Slots : HostClone(k, i)
       \/ \E k \in Kinds, i \in Slots : HostDrop(k, i)
       \/ \E ref \in Slots, key \in Keys : ObjGet(ref, key)
       \/ \E ref \in Slots, key \in Keys : ObjGetHandle(ref, key)
       \/ \E ref \in Slots, key \in Keys, data \in HostValues : ObjSet(ref, key, data)
       \/ \E ref \in Slots, key \in Keys, k \in Kinds, i \in Slots : ObjPut(ref, key, k, i)
       \/ \E ref \in Slots, key \in Keys : ObjRemove(ref, key)
       \/ \E ref \in Slots, id \in 0 .. (MaxLen - 1) : ArrGet(ref, id)
       \/ \E ref \in Slots, id \in 0 .. (MaxLen - 1) : ArrGetHandle(ref, id)
       \/ \E ref \in Slots, data \in HostValues : ArrPush(ref, data)
       \/ \E ref \in Slots, k \in Kinds, i \in Slots : ArrPushH(ref, k, i)
       \/ \E ref \in Slots, id \in 0 .. (MaxLen - 1), data \in HostValues : ArrSet(ref, id, data)
       \/ \E ref \in Slots, id \in 0 .. (MaxLen - 1) : ArrRemove(ref, id)
       \/ \E ord \in KeyOrders : Gc(ord)

Spec == Init /\ [][Next]_vars

\* SpecObjBytes: a host that uses Objects and Bytes only, for longer runs
ObjBytesKinds == {"DObject", "DBytes"}

InitObjBytes == StoreInit /\ MutexIdle /\ limit = MaxObjBytesSteps

NextObjBytes ==
    /\ UNCHANGED mutexVars
    /\ \/ \E k \in ObjBytesKinds : HostNew(k)
       \/ \E k \in ObjBytesKinds, i \in Slots : HostClone(k, i)
       \/ \E k \in ObjBytesKinds, i \in Slots : HostDrop(k, i)
       \/ \E ref \in Slots, key \in Keys : ObjGet(ref, key)
       \/ \E ref \in Slots, key \in Keys : ObjGetHandle(ref, key)
       \/ \E ref \in Slots, key \in Keys, data \in HostValues : ObjSet(ref, key, data)
       \/ \E ref \in Slots, key \in Keys, k \in ObjBytesKinds, i \in Slots : ObjPut(ref, key, k, i)
       \/ \E ref \in Slots, key \in Keys : ObjRemove(ref, key)
       \/ \E ord \in KeyOrders : Gc(ord)

SpecObjBytes == InitObjBytes /\ [][NextObjBytes]_vars

----------------------------------------------------------------------------
(* SharedMutex (src/src/sharedmutex.rs)                                    *)
(* Instance i keeps its local_lock_storage and local_data_storage at       *)
(* address i; address 0 is the null pointer.                               *)

NumThreads == 2      \* threads
MaxIncr    == 2      \* increments each thread makes under lock()
UsizeBits  == 2      \* width of the lock word

Mutexes == {1, 2}    \* the instances m1 and m2
Threads == 1 .. NumThreads
SetValues == {0, 5}
AssignValue == 100

UNLOCKED == 0
WRITE_LOCKED == 2 ^ UsizeBits - 1       \* usize::MAX

\* SharedMutex::new()
SMNew == [state |-> "Uninitialized", lock_ptr |-> 0, data_ptr |-> 0]

\* a set that does not look at the state
SMSetUnchecked(mc, m, t) ==
    [mtx  |-> [mc.mtx EXCEPT ![m] = [state |-> "Local", lock_ptr |-> m, data_ptr |-> m]],
     cell |-> [lock |-> [mc.cell.lock EXCEPT ![m] = UNLOCKED],
               data |-> [mc.cell.data EXCEPT ![m] = Some(t)]],
     panicked |-> FALSE]

\* SharedMutex::set on mc = [mtx, cell, panicked]
SMSet(mc, m, t) ==
    IF mc.mtx[m].state # "Uninitialized"
    THEN [mc EXCEPT !.panicked = TRUE]
    ELSE [mtx  |-> [mc.mtx EXCEPT ![m] = [state |-> "Local", lock_ptr |-> m, data_ptr |-> m]],
          cell |-> [lock |-> [mc.cell.lock EXCEPT ![m] = UNLOCKED],
                    data |-> [mc.cell.data EXCEPT ![m] = Some(t)]],
          panicked |-> FALSE]

\* SharedMutex::share of a Local instance (panics otherwise)
SMShare(mc, m) == <<mc.mtx[m].lock_ptr, mc.mtx[m].data_ptr>>

\* a mirror that keeps its own lock word
SMMirrorOwnLock(mc, m, lock_addr, data_addr) ==
    IF mc.mtx[m].state # "Uninitialized" \/ lock_addr = 0 \/ data_addr = 0
    THEN [mc EXCEPT !.panicked = TRUE]
    ELSE [mtx  |-> [mc.mtx EXCEPT ![m] = [state |-> "Mirrored", lock_ptr |-> m,
                                          data_ptr |-> data_addr]],
          cell |-> [mc.cell EXCEPT !.data[m] = None],
          panicked |-> FALSE]

\* SharedMutex::mirror
SMMirror(mc, m, lock_addr, data_addr) ==
    IF mc.mtx[m].state # "Uninitialized"
    THEN [mc EXCEPT !.panicked = TRUE]
    ELSE IF lock_addr = 0 \/ data_addr = 0
    THEN [mc EXCEPT !.panicked = TRUE]
    ELSE [mtx  |-> [mc.mtx EXCEPT ![m] = [state |-> "Mirrored", lock_ptr |-> lock_addr,
                                          data_ptr |-> data_addr]],
          cell |-> [mc.cell EXCEPT !.data[m] = None],
          panicked |-> FALSE]

\* SharedMutex::is_initialized
IsInitialized(m) == mtx[m].state # "Uninitialized"

\* *self.lock_ptr and *self.data_ptr
LockWord(m) == cell.lock[mtx[m].lock_ptr]
Payload(m) == cell.data[mtx[m].data_ptr][1]

\* a lock() whose exchange takes the word whatever it holds
CanLockAlways(word) == TRUE

\* lock(): compare_exchange_weak(UNLOCKED, WRITE_LOCKED) can succeed
CanLock(word) == word = UNLOCKED

\* a read() that does not look for the writer
CanReadPastWriter(current_state) == current_state # WRITE_LOCKED - 1

\* read(): neither "current_state == WRITE_LOCKED" nor "== WRITE_LOCKED - 1"
CanRead(current_state) ==
    current_state # WRITE_LOCKED /\ current_state # WRITE_LOCKED - 1

----------------------------------------------------------------------------
(* A main thread calls set and mirror on m1 and m2; the threads take       *)
(* lock() and read() on them, one atomic memory access per step.  A failed *)
(* compare_exchange_weak and a turn of spin_loop() leave the state as it   *)
(* is.                                                                     *)
(* SpecMutex : set, mirror, and threads that increment the payload under   *)
(*             lock() (g_multithreaded_access, g_share_and_mirror_works).  *)
(* SpecRW    : set, and threads that assign the payload under lock() or    *)
(*             look at it under read() (write_blocks_read,                 *)
(*             read_blocks_write, multiple_readers_concurrently).          *)

NoCall == [op |-> "none", m |-> 0, panicked |-> FALSE]

IdleThread == [pc |-> "idle", m |-> 0, current_state |-> 0, tmp |-> 0, done |-> 0]

\* no thread is inside a call on instance m or holds a guard of it: set and
\* mirror take &mut self
Unborrowed(m) == \A t \in Threads : thr[t].m # m

WriteGuardPcs == {"w_load", "w_store", "w_drop"}
ReadGuardPcs == {"r_deref", "r_drop"}

InitMutex ==
    /\ mtx = [m \in Mutexes |-> SMNew]
    /\ cell = [lock |-> [m \in Mutexes |-> UNLOCKED], data |-> [m \in Mutexes |-> None]]
    /\ thr = [t \in Threads |-> IdleThread]
    /\ mhist = [call |-> NoCall, initial |-> [m \in Mutexes |-> 0], via |-> 0,
                shared |-> <<0, 0>>]

\* m.set(t)
MainSet(m, t) ==
    LET r == SMSet([mtx |-> mtx, cell |-> cell, panicked |-> FALSE], m, t)
    IN  /\ Unborrowed(m)
        /\ mtx' = r.mtx
        /\ cell' = r.cell
        /\ mhist' = [mhist EXCEPT !.call = [op |-> "set", m |-> m, panicked |-> r.panicked],
                                  !.initial = IF r.panicked THEN @ ELSE [@ EXCEPT ![m] = t]]
        /\ UNCHANGED thr

\* m.mirror(lock_addr, data_addr)
MainMirrorCall(m, addrs) ==
    LET r == SMMirror([mtx |-> mtx, cell |-> cell, panicked |-> FALSE], m,
                      addrs[1], addrs[2])
    IN  /\ Unborrowed(m)
        /\ mtx' = r.mtx
        /\ cell' = r.cell
        /\ mhist' = [mhist EXCEPT !.call = [op |-> "mirror", m |-> m,
                                            panicked |-> r.panicked]]
        /\ UNCHANGED thr

\* m.mirror(src.share()) with src Local
MainMirror(m, src) ==
    /\ mtx[src].state = "Local"
    /\ MainMirrorCall(m, SMShare([mtx |-> mtx, cell |-> cell], src))

\* m.mirror(0, 0)
MainMirrorNull(m) == MainMirrorCall(m, <<0, 0>>)

Step(t, next) ==
    /\ thr' = [thr EXCEPT ![t] = next]
    /\ mhist' = [mhist EXCEPT !.call = NoCall]

\* lock() is called on an initialized instance
StartLock(t, m) ==
    /\ thr[t].pc = "idle"
    /\ IsInitialized(m)
    /\ Step(t, [thr[t] EXCEPT !.pc = "lock", !.m = m])
    /\ UNCHANGED <<mtx, cell>>

\* lock(): the compare_exchange_weak succeeds and the write guard is returned
LockCas(t) ==
    /\ thr[t].pc = "lock"
    /\ CanLock(LockWord(thr[t].m))
    /\ cell' = [cell EXCEPT !.lock[mtx[thr[t].m].lock_ptr] = WRITE_LOCKED]
    /\ Step(t, [thr[t] EXCEPT !.pc = "w_load"])
    /\ UNCHANGED mtx

\* "*guard += 1": the read through DerefMut
WLoad(t) ==
    /\ thr[t].pc = "w_load"
    /\ thr[t].done < MaxIncr
    /\ Step(t, [thr[t] EXCEPT !.pc = "w_store", !.tmp = Payload(thr[t].m)])
    /\ UNCHANGED <<mtx, cell>>

\* "*guard += 1": the write through DerefMut
WStore(t) ==
    /\ thr[t].pc = "w_store"
    /\ cell' = [cell EXCEPT !.data[mtx[thr[t].m].data_ptr] = Some(thr[t].tmp + 1)]
    /\ thr' = [thr EXCEPT ![t] = [@ EXCEPT !.pc = "w_drop", !.tmp = 0, !.done = @ + 1]]
    /\ mhist' = [mhist EXCEPT !.call = NoCall, !.via = thr[t].m]
    /\ UNCHANGED mtx

\* "guard.value = 100": one write through DerefMut
WAssign(t) ==
    /\ thr[t].pc = "w_load"
    /\ cell' = [cell EXCEPT !.data[mtx[thr[t].m].data_ptr] = Some(AssignValue)]
    /\ thr' = [thr EXCEPT ![t] = [@ EXCEPT !.pc = "w_drop"]]
    /\ mhist' = [mhist EXCEPT !.call = NoCall, !.via = thr[t].m]
    /\ UNCHANGED mtx

\* impl Drop for SharedMutexGuard: release_write_lock stores UNLOCKED
WDrop(t) ==
    /\ thr[t].pc \in {"w_load", "w_drop"}
    /\ cell' = [cell EXCEPT !.lock[mtx[thr[t].m].lock_ptr] = UNLOCKED]
    /\ Step(t, [thr[t] EXCEPT !.pc = "idle", !.m = 0])
    /\ UNCHANGED mtx

\* read() is called on an initialized instance
StartRead(t, m) ==
    /\ thr[t].pc = "idle"
    /\ IsInitialized(m)
    /\ Step(t, [thr[t] EXCEPT !.pc = "r_load", !.m = m])
    /\ UNCHANGED <<mtx, cell>>

\* read(): load the lock word; go on to the exchange unless it shows a
\* writer or the full count of readers
ReadLoad(t) ==
    /\ thr[t].pc = "r_load"
    /\ CanRead(LockWord(thr[t].m))
    /\ Step(t, [thr[t] EXCEPT !.pc = "r_cas", !.current_state = LockWord(thr[t].m)])
    /\ UNCHANGED <<mtx, cell>>

\* read(): compare_exchange_weak(current_state, current_state + 1); on
\* success the read guard is returned, on failure the loop starts again
ReadCas(t) ==
    /\ thr[t].pc = "r_cas"
    /\ \/ /\ LockWord(thr[t].m) = thr[t].current_state
          /\ cell' = [cell EXCEPT !.lock[mtx[thr[t].m].lock_ptr] =
                                     (thr[t].current_state + 1) % (2 ^ UsizeBits)]
          /\ Step(t, [thr[t] EXCEPT !.pc = "r_deref", !.current_state = 0])
       \/ /\ Step(t, [thr[t] EXCEPT !.pc = "r_load", !.current_state = 0])
          /\ UNCHANGED cell
    /\ UNCHANGED mtx

\* the read through Deref of the read guard
ReadDeref(t) ==
    /\ thr[t].pc = "r_deref"
    /\ Step(t, [thr[t] EXCEPT !.pc = "r_drop", !.tmp = Payload(thr[t].m)])
    /\ UNCHANGED <<mtx, cell>>

\* impl Drop for SharedMutexReadGuard: release_read_lock does fetch_sub(1)
ReadDrop(t) ==
    /\ thr[t].pc = "r_drop"
    /\ cell' = [cell EXCEPT !.lock[mtx[thr[t].m].lock_ptr] =
                               (@ + 2 ^ UsizeBits - 1) % (2 ^ UsizeBits)]
    /\ Step(t, [thr[t] EXCEPT !.pc = "idle", !.tmp = 0, !.m = 0])
    /\ UNCHANGED mtx

StoreIdle == StoreInit /\ limit = 0

InitM == StoreIdle /\ InitMutex

NextMutex ==
    /\ UNCHANGED storeVars
    /\ \/ \E m \in Mutexes, t \in SetValues : MainSet(m, t)
       \/ \E m \in Mutexes, src \in Mutexes : MainMirror(m, src)
       \/ \E m \in Mutexes : MainMirrorNull(m)
       \/ \E t \in Threads, m \in Mutexes : StartLock(t, m)
       \/ \E t \in Threads : LockCas(t)
       \/ \E t \in Threads : WLoad(t)
       \/ \E t \in Threads : WStore(t)
       \/ \E t \in Threads : WDrop(t)

SpecMutex == InitM /\ [][NextMutex]_vars

NextRW ==
    /\ UNCHANGED storeVars
    /\ \/ \E m \in Mutexes, t \in SetValues : MainSet(m, t)
       \/ \E t \in Threads, m \in Mutexes : StartLock(t, m)
       \/ \E t \in Threads : LockCas(t)
       \/ \E t \in Threads : WAssign(t)
       \/ \E t \in Threads : WDrop(t)
       \/ \E t \in Threads, m \in Mutexes : StartRead(t, m)
       \/ \E t \in Threads : ReadLoad(t)
       \/ \E t \in Threads : ReadCas(t)
       \/ \E t \in Threads : ReadDeref(t)
       \/ \E t \in Threads : ReadDrop(t)

SpecRW == InitM /\ [][NextRW]_vars

----------------------------------------------------------------------------
(* SpecCalls : every public call on m1 and m2 in any state, the calls that *)
(*             panic included (lock_uninitialized_panics,                  *)
(*             read_uninitialized_panics, share_uninitialized_panics,      *)
(*             share_mirrored_panics).  A panicking call unwinds before it *)
(*             touches the lock word.                                      *)

\* a share that refuses only an Uninitialized instance
SMShareFailsIfUninit(mc, m) == mc.mtx[m].state = "Uninitialized"

\* share(): "if self.state != MutexState::Local { panic!(..) }"
SMShareFails(mc, m) == mc.mtx[m].state # "Local"

\* lock() and read(): "if !self.is_initialized() { panic!(..) }"
LockFails(m) == ~IsInitialized(m)

\* m.share(): the addresses are kept for a later mirror
MainShare(m) ==
    LET mc == [mtx |-> mtx, cell |-> cell]
        failed == SMShareFails(mc, m)
    IN  /\ mhist' = [mhist EXCEPT !.call = [op |-> "share", m |-> m, panicked |-> failed],
                                  !.shared = IF failed THEN @ ELSE SMShare(mc, m)]
        /\ UNCHANGED <<mtx, cell, thr>>

\* m.mirror(l, d) with the addresses a share() returned
MainMirrorShared(m) ==
    /\ mhist.shared # <<0, 0>>
    /\ MainMirrorCall(m, mhist.shared)

\* lock() on an Uninitialized instance panics
LockPanics(t, m) ==
    /\ thr[t].pc = "idle"
    /\ LockFails(m)
    /\ mhist' = [mhist EXCEPT !.call = [op |-> "lock", m |-> m, panicked |-> TRUE]]
    /\ UNCHANGED <<mtx, cell, thr>>

\* read() on an Uninitialized instance panics
ReadPanics(t, m) ==
    /\ thr[t].pc = "idle"
    /\ LockFails(m)
    /\ mhist' = [mhist EXCEPT !.call = [op |-> "read", m |-> m, panicked |-> TRUE]]
    /\ UNCHANGED <<mtx, cell, thr>>

NextCalls ==
    /\ UNCHANGED storeVars
    /\ \/ \E m \in Mutexes, t \in SetValues : MainSet(m, t)
       \/ \E m \in Mutexes : MainShare(m)
       \/ \E m \in Mutexes : MainMirrorShared(m)
       \/ \E t \in Threads, m \in Mutexes : StartLock(t, m)
       \/ \E t \in Threads, m \in Mutexes : LockPanics(t, m)
       \/ \E t \in Threads : LockCas(t)
       \/ \E t \in Threads : WDrop(t)
       \/ \E t \in Threads, m \in Mutexes : StartRead(t, m)
       \/ \E t \in Threads, m \in Mutexes : ReadPanics(t, m)
       \/ \E t \in Threads : ReadLoad(t)
       \/ \E t \in Threads : ReadCas(t)
       \/ \E t \in Threads : ReadDeref(t)
       \/ \E t \in Threads : ReadDrop(t)

SpecCalls == InitM /\ [][NextCalls]_vars

----------------------------------------------------------------------------
(* The locks of the three stores.  OBJECT_HEAP, ARRAY_HEAP, BYTES_HEAP and *)
(* the three drop queues are SharedMutex instances; every store operation  *)
(* takes them with lock() and gives them back when the guard goes out of   *)
(* scope.  SpecLocks runs the operations of concurrent threads as the      *)
(* sequences of lock() and guard drops their code makes, one per step.     *)
(* The instances are named by their lock word: mtx[l].lock_ptr = l.        *)

StoreLocks == {"OH", "AH", "BH", "OD", "AD", "BD"}

\* oheap() / aheap() / bheap() and odrop() / adrop() / bdrop() of a handle kind
KindLock(k) == CASE k = "DObject" -> "OH" [] k = "DArray" -> "AH" [] k = "DBytes" -> "BH"
DropLock(k) == CASE k = "DObject" -> "OD" [] k = "DArray" -> "AD" [] k = "DBytes" -> "BD"

Acq(l) == <<"lock", l>>
Rel(l) == <<"drop", l>>

\* "xheap().lock().incr(i)" or ".decr(i)" as one statement: the guard is a
\* temporary of the statement (nothing for a value that is no handle)
CountProg(k) == IF k \in Kinds THEN <<Acq(KindLock(k)), Rel(KindLock(k))>> ELSE <<>>

\* "let _ = DataObject { data_ref: i };": Drop takes the queue lock
DropProg(k) == IF k \in Kinds THEN <<Acq(DropLock(k)), Rel(DropLock(k))>> ELSE <<>>

\* What a call is made with: the kind of the value passed (d), the kind of
\* the value it replaces or takes out (old), and whether it runs into the
\* path that undoes the increment (alt): for DataArray::set_property
\* "id >= vec.len()", for push_unique a second check that finds the value
\* another thread pushed after the first check.
OpInputs ==
    [name : {"new", "drop", "o.get", "o.set", "o.remove", "a.get", "a.push", "a.set",
             "a.remove", "a.push_unique", "o.gc", "a.gc", "b.gc"},
     d : Kinds \cup {"DInt"}, old : Kinds \cup {"None"}, alt : BOOLEAN]

\* the lock() calls and guard drops of one call, in program order
LockProgram(op) ==
    CASE op.name = "new" -> CountProg(op.d)
      [] op.name = "drop" -> DropProg(op.d)
      [] op.name = "o.get" -> <<Acq("OH"), Rel("OH")>> \o CountProg(op.old)
      [] op.name = "a.get" -> <<Acq("AH"), Rel("AH")>> \o CountProg(op.old)
      [] op.name = "o.set" ->
            (IF op.d \in {"DArray", "DBytes"}
             THEN <<Acq("OH")>> \o CountProg(op.d) \o <<Rel("OH")>>
             ELSE <<Acq("OH"), Rel("OH")>>) \o DropProg(op.old)
      [] op.name = "o.remove" -> <<Acq("OH"), Rel("OH")>> \o DropProg(op.old)
      [] op.name = "a.push" -> CountProg(op.d) \o <<Acq("AH"), Rel("AH")>>
      [] op.name = "a.set" ->
            CountProg(op.d) \o <<Acq("AH")>> \o
            (IF op.alt THEN CountProg(op.d) \o <<Rel("AH")>>
                       ELSE <<Rel("AH")>> \o DropProg(op.old))
      [] op.name = "a.remove" -> <<Acq("AH"), Rel("AH")>> \o DropProg(op.old)
      [] op.name = "a.push_unique" ->
            <<Acq("AH"), Rel("AH")>> \o
            (IF op.d = "DArray" THEN <<Acq("AH"), Rel("AH")>>
             ELSE CountProg(op.d) \o <<Acq("AH")>> \o
                  (IF op.alt THEN CountProg(op.d) ELSE <<>>) \o <<Rel("AH")>>)
      [] op.name = "o.gc" ->
            <<Acq("OH"), Acq("AH"), Acq("OD"), Rel("OD"), Rel("AH"), Rel("OH")>>
      [] op.name = "a.gc" ->
            <<Acq("OH"), Acq("AH"), Acq("AD"), Rel("AD"), Rel("AH"), Rel("OH")>>
      [] op.name = "b.gc" -> <<Acq("BH"), Acq("BD"), Rel("BD"), Rel("BH")>>

\* a thread between calls
NoProgram == [pc |-> "idle", name |-> "", todo |-> <<>>, held |-> <<>>]

InitLocks ==
    /\ StoreIdle
    /\ mtx = [l \in StoreLocks |-> [state |-> "Local", lock_ptr |-> l, data_ptr |-> l]]
    /\ cell = [lock |-> [l \in StoreLocks |-> UNLOCKED]]
    /\ thr = [t \in Threads |-> NoProgram]
    /\ mhist = <<>>

\* thread t makes a call
OpBegin(t, op) ==
    /\ thr[t].pc = "idle"
    /\ LockProgram(op) # <<>>
    /\ thr' = [thr EXCEPT ![t] = [pc |-> "run", name |-> op.name,
                                  todo |-> LockProgram(op), held |-> <<>>]]
    /\ UNCHANGED <<mtx, cell, mhist>>

\* what is left of the call after its next step
Rest(t, locks) ==
    IF Len(thr[t].todo) = 1 THEN NoProgram
    ELSE [thr[t] EXCEPT !.todo = Tail(@), !.held = locks]

\* lock(): the compare_exchange_weak succeeds
OpLock(t) ==
    /\ thr[t].pc = "run"
    /\ Head(thr[t].todo)[1] = "lock"
    /\ LET l == Head(thr[t].todo)[2]
       IN  /\ CanLock(cell.lock[mtx[l].lock_ptr])
           /\ cell' = [cell EXCEPT !.lock[mtx[l].lock_ptr] = WRITE_LOCKED]
           /\ thr' = [thr EXCEPT ![t] = Rest(t, Append(thr[t].held, l))]
    /\ UNCHANGED <<mtx, mhist>>

\* the guard goes out of scope: release_write_lock
OpUnlock(t) ==
    /\ thr[t].pc = "run"
    /\ Head(thr[t].todo)[1] = "drop"
    /\ LET l == Head(thr[t].todo)[2]
       IN  /\ cell' = [cell EXCEPT !.lock[mtx[l].lock_ptr] = UNLOCKED]
           /\ thr' = [thr EXCEPT ![t] = Rest(t, SelectSeq(thr[t].held, LAMBDA h : h # l))]
    /\ UNCHANGED <<mtx, mhist>>

NextLocks ==
    /\ UNCHANGED storeVars
    /\ \/ \E t \in Threads, op \in OpInputs : OpBegin(t, op)
       \/ \E t \in Threads : OpLock(t)
       \/ \E t \in Threads : OpUnlock(t)

SpecLocks == InitLocks /\ [][NextLocks]_vars

----------------------------------------------------------------------------
(* SpecHeap : one Heap<T> (kept in oheap) under every sequence of push,    *)
(*            incr and decr, the calls on an index that is not live        *)
(*            included.  ret is what the call returned.                    *)

MaxArena == 3        \* slots the arena may grow to
MaxCount == 3        \* reference count an entry may be raised to

ArenaSlots == 0 .. MaxArena          \* MaxArena itself is always out of range
ArenaValues == {DInt(5), DNull}

\* the call panicked
Panic == [t |-> "Panic", v |-> 0]

\* the usize a call returned
Idx(i) == [t |-> "usize", v |-> i]

InitArena == StoreIdle /\ MutexIdle

\* every variable but the heap under test and the returned value
ArenaFrame == <<aheap, bheap, odrop, adrop, bdrop, held, lastOp, steps, limit, mutexVars>>

\* heap.push(d)
HeapPushOp(d) ==
    /\ oheap.empty # <<>> \/ Len(oheap.data) < MaxArena
    /\ ret' = Idx(UMNextIndex(oheap))
    /\ oheap' = HeapPush(oheap, d)
    /\ UNCHANGED ArenaFrame

\* heap.incr(index): get_mut(index).expect(..) panics on an index that is not live
HeapIncrOp(index) ==
    /\ IF HeapContainsKey(oheap, index)
       THEN /\ HeapCount(oheap, index) < MaxCount
            /\ oheap' = HeapIncr(oheap, index)
            /\ ret' = DNull
       ELSE oheap' = oheap /\ ret' = Panic
    /\ UNCHANGED ArenaFrame

\* heap.decr(index): panics on an index that is not live
HeapDecrOp(index) ==
    /\ IF HeapContainsKey(oheap, index)
       THEN oheap' = HeapDecr(oheap, index) /\ ret' = DNull
       ELSE oheap' = oheap /\ ret' = Panic
    /\ UNCHANGED ArenaFrame

NextHeap ==
    \/ \E d \in ArenaValues : HeapPushOp(d)
    \/ \E index \in ArenaSlots : HeapIncrOp(index)
    \/ \E index \in ArenaSlots : HeapDecrOp(index)

SpecHeap == InitArena /\ [][NextHeap]_vars

----------------------------------------------------------------------------
(* SpecArena : one UsizeMap<Data> (kept in oheap) under every sequence of  *)
(*             insert, remove and clear, the removes of empty and          *)
(*             out-of-range keys included.                                 *)
(* SpecReuse : insert and remove alone, where an insert that can be made   *)
(*             is eventually made.                                         *)

\* map.insert(element)
ArenaInsert(element) ==
    /\ oheap.empty # <<>> \/ Len(oheap.data) < MaxArena
    /\ ret' = Idx(UMNextIndex(oheap))
    /\ oheap' = UMInsert(oheap, element)
    /\ UNCHANGED ArenaFrame

\* map.remove(key): Some(value), or None for an empty or out-of-range key
ArenaRemove(key) ==
    /\ ret' = IF UMContainsKey(oheap, key) THEN UMGet(oheap, key) ELSE Absent
    /\ oheap' = UMRemove(oheap, key)
    /\ UNCHANGED ArenaFrame

\* map.clear()
ArenaClear ==
    /\ oheap' = UMClear(oheap)
    /\ ret' = DNull
    /\ UNCHANGED ArenaFrame

NextArena ==
    \/ \E element \in ArenaValues : ArenaInsert(element)
    \/ \E key \in ArenaSlots : ArenaRemove(key)
    \/ ArenaClear

SpecArena == InitArena /\ [][NextArena]_vars

NextReuse ==
    \/ \E element \in ArenaValues : ArenaInsert(element)
    \/ \E key \in ArenaSlots : ArenaRemove(key)

SpecReuse ==
    InitArena /\ [][NextReuse]_vars
       /\ WF_vars(\E element \in ArenaValues : ArenaInsert(element))

----------------------------------------------------------------------------
(* SpecTry: the Result-returning getters.  The host may call the public    *)
(* decr() of a handle it still holds, which leaves the handle stale.       *)

MaxTrySteps == 4

\* the NDataError values (dataobject.rs / dataarray.rs / databytes.rs)
KeyNotFound(key) == [t |-> "KeyNotFound", v |-> key]
IndexOutOfBounds(index, len) == [t |-> "IndexOutOfBounds", v |-> <<index, len>>]
InvalidArrayRef == [t |-> "InvalidArrayRef", v |-> 0]
InvalidBytesRef == [t |-> "InvalidBytesRef", v |-> 0]
OkBytes(data) == [t |-> "Ok", v |-> data]

\* DataObject::try_get_property
ObjTryGetProperty(s, ref, key) ==
    IF ~HeapContainsKey(s.oh, ref) THEN KeyNotFound(key)
    ELSE IF HeapGet(s.oh, ref)[key] = Absent THEN KeyNotFound(key)
    ELSE DataClone(HeapGet(s.oh, ref)[key])

\* DataArray::try_get_property
ArrTryGetProperty(s, ref, index) ==
    IF ~HeapContainsKey(s.ah, ref) THEN InvalidArrayRef
    ELSE IF index >= Len(HeapGet(s.ah, ref))
         THEN IndexOutOfBounds(index, Len(HeapGet(s.ah, ref)))
    ELSE DataClone(HeapGet(s.ah, ref)[index + 1])

\* DataBytes::try_get_data
BytesTryGetData(s, ref) ==
    IF ~HeapContainsKey(s.bh, ref) THEN InvalidBytesRef
    ELSE OkBytes(HeapGet(s.bh, ref).data)

InitTry == StoreInit /\ MutexIdle /\ limit = MaxTrySteps

\* o.decr() / a.decr() / b.decr() through a handle the host keeps: Heap::decr
\* panics when the entry is gone, before any change
HostDecr(k, i) ==
    /\ Called
    /\ held[k][i] > 0
    /\ IF HeapContainsKey(HeapOf(St, k), i)
       THEN Commit(DecrTarget(St, Handle(k, i))) /\ ret' = DNull
       ELSE Commit(St) /\ ret' = Panic
    /\ lastOp' = NoOp
    /\ UNCHANGED held

\* o.try_get_property(key) / a.try_get_property(index) / b.try_get_data()
TryGet(k, ref, key, index) ==
    /\ Called
    /\ held[k][ref] > 0
    /\ ret' = IF k = "DObject" THEN ObjTryGetProperty(St, ref, key)
              ELSE IF k = "DArray" THEN ArrTryGetProperty(St, ref, index)
              ELSE BytesTryGetData(St, ref)
    /\ Commit(St)
    /\ lastOp' = NoOp
    /\ UNCHANGED held

NextTry ==
    /\ UNCHANGED mutexVars
    /\ \/ \E k \in Kinds : HostNew(k)
       \/ \E k \in Kinds, i \in Slots : HostDecr(k, i)
       \/ \E ref \in Slots, key \in Keys, data \in Scalars :
             HeapContainsKey(oheap, ref) /\ ObjSet(ref, key, data)
       \/ \E ref \in Slots, data \in Scalars :
             HeapContainsKey(aheap, ref) /\ ArrPush(ref, data)
       \/ \E k \in Kinds, ref \in Slots, key \in Keys, index \in 0 .. MaxLen :
             TryGet(k, ref, key, index)

SpecTry == InitTry /\ [][NextTry]_vars

----------------------------------------------------------------------------
(* SpecFatal: the panicking DataArray accessors called with any index,     *)
(* id >= len included.  cell.lock holds the lock words of the six store    *)
(* statics; a call that never returns leaves ret = Hang and the host       *)
(* makes no further call.                                                  *)

MaxFatalSteps == 4

\* the call spins in SharedMutex::lock and never returns
Hang == [t |-> "Hang", v |-> 0]

\* DataArray::set_property reaches `aheap().lock().decr(*i)` of a roll-back
\* while heap_guard is alive: target missing or id >= len, with a DArray value
SetRollsBackArray(s, ref, id, data) ==
    /\ data.t = "DArray"
    /\ \/ ~HeapContainsKey(IncrTarget(s, data).ah, ref)
       \/ id >= Len(HeapGet(IncrTarget(s, data).ah, ref))

\* what DataArray::set_property hands back to its caller
ArrSetOutcome(s, ref, id, data) ==
    IF SetRollsBackArray(s, ref, id, data) THEN Hang
    ELSE IF ~HeapContainsKey(s.ah, ref) THEN DNull
    ELSE IF id >= Len(HeapGet(s.ah, ref)) THEN Panic
    ELSE DNull

\* DataArray::pop_property with id < len: vec.remove(id), handed to the caller
ArrPopProperty(s, ref, id) ==
    [s EXCEPT !.ah = HeapPut(@, ref, VecRemove(HeapGet(@, ref), id))]

InitFatal ==
    /\ StoreInit /\ limit = MaxFatalSteps
    /\ mtx = [l \in StoreLocks |-> [state |-> "Local", lock_ptr |-> l, data_ptr |-> l]]
    /\ cell = [lock |-> [l \in StoreLocks |-> UNLOCKED]]
    /\ thr = <<>>
    /\ mhist = <<>>

\* a.get_property(id), any id
ArrGetCall(ref, id) ==
    /\ Called
    /\ ret.t # "Hang"
    /\ held["DArray"][ref] > 0
    /\ ret' = IF id >= Len(HeapGet(aheap, ref)) THEN Panic
              ELSE ArrGetProperty(St, ref, id)
    /\ Commit(St)
    /\ lastOp' = NoOp
    /\ UNCHANGED <<held, mutexVars>>

\* a.set_property(id, data), any id
ArrSetCall(ref, id, data) ==
    /\ Called
    /\ ret.t # "Hang"
    /\ held["DArray"][ref] > 0
    /\ LET s2 == ArrSetProperty(St, ref, id, data)
       IN  QueuesFit(s2) /\ Commit(s2)
    /\ ret' = ArrSetOutcome(St, ref, id, data)
    /\ cell' = IF SetRollsBackArray(St, ref, id, data)
               THEN [cell EXCEPT !.lock["AH"] = WRITE_LOCKED]
               ELSE cell
    /\ lastOp' = NoOp
    /\ UNCHANGED <<held, mtx, thr, mhist>>

\* a.remove_property(id), any id
ArrRemoveCall(ref, id) ==
    /\ Called
    /\ ret.t # "Hang"
    /\ held["DArray"][ref] > 0
    /\ IF id >= Len(HeapGet(aheap, ref))
       THEN Commit(St) /\ ret' = Panic
       ELSE /\ LET s2 == ArrRemoveProperty(St, ref, id)
               IN  QueuesFit(s2) /\ Commit(s2)
            /\ ret' = DNull
    /\ lastOp' = NoOp
    /\ UNCHANGED <<held, mutexVars>>

\* a.pop_property(id), any id
ArrPopCall(ref, id) ==
    /\ Called
    /\ ret.t # "Hang"
    /\ held["DArray"][ref] > 0
    /\ IF id >= Len(HeapGet(aheap, ref))
       THEN Commit(St) /\ ret' = Panic
       ELSE /\ Commit(ArrPopProperty(St, ref, id))
            /\ ret' = HeapGet(aheap, ref)[id + 1]
    /\ lastOp' = NoOp
    /\ UNCHANGED <<held, mutexVars>>

NextFatal ==
    \/ \E k \in Kinds : HostNew(k) /\ UNCHANGED mutexVars
    \/ \E ref \in Slots, data \in HostValues :
          ret.t # "Hang" /\ ArrPush(ref, data) /\ UNCHANGED mutexVars
    \/ \E ref \in Slots, id \in 0 .. MaxLen : ArrGetCall(ref, id)
    \/ \E ref \in Slots, id \in 0 .. MaxLen, data \in HostValues :
          ArrSetCall(ref, id, data)
    \/ \E ref \in Slots, id \in 0 .. MaxLen : ArrRemoveCall(ref, id)
    \/ \E ref \in Slots, id \in 0 .. MaxLen : ArrPopCall(ref, id)

SpecFatal == InitFatal /\ [][NextFatal]_vars

----------------------------------------------------------------------------
(* SpecStream: the byte streams of the Bytes store.  mhist logs, for each  *)
(* stream, the bytes it was given (from_bytes, set_data, accepted writes)  *)
(* and the bytes its reads returned, in all and since the latest set_data. *)

MaxBuf == 1
MaxStreams == 1
MaxStreamSteps == 4
ByteValues == {1, 2}

\* the &[u8] / Vec<u8> arguments
Bufs == UNION {[1 .. n -> ByteValues] : n \in 0 .. MaxBuf}

Min(a, b) == IF a < b THEN a ELSE b

\* DataStream::from_bytes
DataStreamFromBytes(buf) ==
    [data |-> buf, len |-> Len(buf), read_open |-> TRUE,
     write_open |-> FALSE, mime_type |-> None]

\* DataBytes::write: refused unless both ends are open
WriteAccepts(stream) == stream.write_open /\ stream.read_open

\* DataBytes::try_write: refused unless the write end is open
TryWriteAccepts(stream) == stream.write_open

\* stream.data.extend_from_slice(buf)
StreamExtend(stream, buf) == [stream EXCEPT !.data = @ \o buf]

\* a read that hands out the last bytes instead of the first
StreamReadTail(stream, n) ==
    LET num_to_read == Min(n, Len(stream.data))
        rest == SubSeq(stream.data, 1, Len(stream.data) - num_to_read)
    IN  [d |-> SubSeq(stream.data, Len(stream.data) - num_to_read + 1, Len(stream.data)),
         stream |-> [stream EXCEPT !.data = rest,
                                   !.read_open = IF ~stream.write_open /\ rest = <<>>
                                                 THEN FALSE ELSE @]]

\* the body of DataBytes::read / try_read on a read-open stream: the bytes
\* handed out and the stream left behind
StreamRead(stream, n) ==
    LET num_to_read == Min(n, Len(stream.data))
        rest == SubSeq(stream.data, num_to_read + 1, Len(stream.data))
    IN  [d |-> SubSeq(stream.data, 1, num_to_read),
         stream |-> [stream EXCEPT !.data = rest,
                                   !.read_open = IF ~stream.write_open /\ rest = <<>>
                                                 THEN FALSE ELSE @]]

\* DataBytes::set_data / try_set_data
StreamSetData(stream, buf) ==
    [stream EXCEPT !.data = buf, !.len = Len(buf), !.write_open = FALSE]

NoLog == [given |-> <<>>, got |-> <<>>, sgiven |-> <<>>, sgot |-> <<>>]
LogGiven(ref, buf) ==
    [mhist EXCEPT ![ref].given = @ \o buf, ![ref].sgiven = @ \o buf]
LogGot(ref, d) ==
    [mhist EXCEPT ![ref].got = @ \o d, ![ref].sgot = @ \o d]
LogSet(ref, buf) ==
    [mhist EXCEPT ![ref].given = @ \o buf, ![ref].sgiven = buf, ![ref].sgot = <<>>]

\* the latest call on a stream
StreamCall(op, ref, buf) == [op |-> op, ref |-> ref]

StreamFrame == <<oheap, aheap, odrop, adrop, bdrop, mtx, cell, thr>>

InitStream ==
    /\ StoreInit /\ limit = MaxStreamSteps
    /\ mtx = <<>> /\ cell = <<>> /\ thr = <<>>
    /\ mhist = [i \in Slots |-> NoLog]

\* DataBytes::new()
BytesNew ==
    /\ UMLen(bheap) < MaxStreams
    /\ HostNew("DBytes")
    /\ UNCHANGED <<mtx, cell, thr, mhist>>

\* DataBytes::from_bytes(buf)
BytesFromBytes(buf) ==
    /\ Called
    /\ UMLen(bheap) < MaxStreams
    /\ NumHeld < MaxHeld
    /\ UMNextIndex(bheap) < MaxSlots
    /\ bheap' = HeapPush(bheap, DataStreamFromBytes(buf))
    /\ held' = Acquire("DBytes", UMNextIndex(bheap))
    /\ mhist' = LogGiven(UMNextIndex(bheap), buf)
    /\ ret' = DNull
    /\ lastOp' = StreamCall("from_bytes", UMNextIndex(bheap), buf)
    /\ UNCHANGED StreamFrame

\* b.write(buf): true when the bytes were appended
BytesWrite(ref, buf) ==
    /\ Called
    /\ held["DBytes"][ref] > 0
    /\ LET stream == HeapGet(bheap, ref)
       IN  IF WriteAccepts(stream)
           THEN /\ bheap' = HeapPut(bheap, ref, StreamExtend(stream, buf))
                /\ mhist' = LogGiven(ref, buf)
                /\ ret' = [t |-> "DBoolean", v |-> TRUE]
           ELSE /\ UNCHANGED <<bheap, mhist>>
                /\ ret' = [t |-> "DBoolean", v |-> FALSE]
    /\ lastOp' = StreamCall("write", ref, buf)
    /\ UNCHANGED <<held, StreamFrame>>

\* b.try_write(buf)
BytesTryWrite(ref, buf) ==
    /\ Called
    /\ held["DBytes"][ref] > 0
    /\ LET stream == HeapGet(bheap, ref)
       IN  IF TryWriteAccepts(stream)
           THEN /\ bheap' = HeapPut(bheap, ref, StreamExtend(stream, buf))
                /\ mhist' = LogGiven(ref, buf)
                /\ ret' = [t |-> "Ok", v |-> <<>>]
           ELSE /\ UNCHANGED <<bheap, mhist>>
                /\ ret' = [t |-> "StreamNotWritable", v |-> 0]
    /\ lastOp' = StreamCall("try_write", ref, buf)
    /\ UNCHANGED <<held, StreamFrame>>

\* b.read(n) / b.try_read(n): they differ only in how a read-closed stream
\* is refused (panic / Err(StreamNotReadable))
BytesRead(ref, n, try) ==
    /\ Called
    /\ held["DBytes"][ref] > 0
    /\ LET stream == HeapGet(bheap, ref)
       IN  IF stream.read_open
           THEN /\ bheap' = HeapPut(bheap, ref, StreamRead(stream, n).stream)
                /\ mhist' = LogGot(ref, StreamRead(stream, n).d)
                /\ ret' = [t |-> "Ok", v |-> StreamRead(stream, n).d]
           ELSE /\ UNCHANGED <<bheap, mhist>>
                /\ ret' = IF try THEN [t |-> "StreamNotReadable", v |-> 0] ELSE Panic
    /\ lastOp' = StreamCall(IF try THEN "try_read" ELSE "read", ref, <<>>)
    /\ UNCHANGED <<held, StreamFrame>>

\* b.set_data(buf) / b.try_set_data(buf)
BytesSetData(ref, buf) ==
    /\ Called
    /\ held["DBytes"][ref] > 0
    /\ bheap' = HeapPut(bheap, ref, StreamSetData(HeapGet(bheap, ref), buf))
    /\ mhist' = LogSet(ref, buf)
    /\ ret' = DNull
    /\ lastOp' = StreamCall("set_data", ref, buf)
    /\ UNCHANGED <<held, StreamFrame>>

\* b.close_write()
BytesCloseWrite(ref) ==
    /\ Called
    /\ held["DBytes"][ref] > 0
    /\ bheap' = HeapPut(bheap, ref, [HeapGet(bheap, ref) EXCEPT !.write_open = FALSE])
    /\ ret' = DNull
    /\ lastOp' = StreamCall("close_write", ref, <<>>)
    /\ UNCHANGED <<held, mhist, StreamFrame>>

\* b.close_read()
BytesCloseRead(ref) ==
    /\ Called
    /\ held["DBytes"][ref] > 0
    /\ bheap' = HeapPut(bheap, ref, [HeapGet(bheap, ref) EXCEPT !.read_open = FALSE])
    /\ ret' = DNull
    /\ lastOp' = StreamCall("close_read", ref, <<>>)
    /\ UNCHANGED <<held, mhist, StreamFrame>>

NextStream ==
    \/ BytesNew
    \/ \E buf \in Bufs : BytesFromBytes(buf)
    \/ \E ref \in Slots, buf \in Bufs : BytesWrite(ref, buf)
    \/ \E ref \in Slots, buf \in Bufs : BytesTryWrite(ref, buf)
    \/ \E ref \in Slots, n \in 0 .. MaxBuf, try \in BOOLEAN : BytesRead(ref, n, try)
    \/ \E ref \in Slots, buf \in Bufs : BytesSetData(ref, buf)
    \/ \E ref \in Slots : BytesCloseWrite(ref)
    \/ \E ref \in Slots : BytesCloseRead(ref)

SpecStream == InitStream /\ [][NextStream]_vars

----------------------------------------------------------------------------
(* SpecCopy: shallow_copy and deep_copy of Objects and Arrays the host     *)
(* has built, nested and self-referencing ones included.                   *)

MaxCopySteps == 4
Containers == {"DObject", "DArray"}

\* objects() that leaves the handle-valued entries out
ObjObjectsNoHandles(s, ref, ord) ==
    LET present == SelectSeq(ord, LAMBDA key : /\ HeapGet(s.oh, ref)[key] # Absent
                                              /\ ~IsHandle(HeapGet(s.oh, ref)[key]))
    IN  [n \in 1 .. Len(present) |->
            <<present[n], DataClone(HeapGet(s.oh, ref)[present[n]])>>]

\* DataObject::objects(): the (key, value) pairs, values cloned, in the
\* HashMap's iteration order ord
ObjObjects(s, ref, ord) ==
    LET present == SelectSeq(ord, LAMBDA key : HeapGet(s.oh, ref)[key] # Absent)
    IN  [n \in 1 .. Len(present) |->
            <<present[n], DataClone(HeapGet(s.oh, ref)[present[n]])>>]

\* DataArray::objects(): vec.clone()
ArrObjects(s, ref) ==
    [n \in 1 .. Len(HeapGet(s.ah, ref)) |-> DataClone(HeapGet(s.ah, ref)[n])]

\* for (key, value) in self.objects() { new_obj.set_property(&key, value); }
RECURSIVE ObjSetAll(_, _, _)
ObjSetAll(s, new, entries) ==
    IF entries = <<>> THEN s
    ELSE ObjSetAll(ObjSetProperty(s, new, Head(entries)[1], Head(entries)[2]),
                   new, Tail(entries))

\* for v in self.objects() { new_arr.push_property(v); }
RECURSIVE ArrPushAll(_, _, _)
ArrPushAll(s, new, values) ==
    IF values = <<>> THEN s
    ELSE ArrPushAll(ArrPushProperty(s, new, Head(values)), new, Tail(values))

\* DataObject::shallow_copy
ObjShallowCopy(s, ref, ord) ==
    LET new == NewIndex(s, "DObject")
        s1 == StoreNew(s, "DObject")
    IN  IF ~HeapContainsKey(s1.oh, ref) THEN s1
        ELSE ObjSetAll(s1, new, ObjObjects(s1, ref, ord))

\* DataArray::shallow_copy
ArrShallowCopy(s, ref) ==
    LET new == NewIndex(s, "DArray")
        s1 == StoreNew(s, "DArray")
    IN  IF ~HeapContainsKey(s1.ah, ref) THEN s1
        ELSE ArrPushAll(s1, new, ArrObjects(s1, ref))

CopyRec(op, k, ref, new) == [op |-> op, kind |-> k, ref |-> ref, new |-> new]

InitCopy == StoreInit /\ MutexIdle /\ limit = MaxCopySteps

\* o.shallow_copy() / a.shallow_copy(): the host keeps the new handle
HostShallowCopy(k, ref, ord) ==
    /\ Called
    /\ held[k][ref] > 0
    /\ NumHeld < MaxHeld
    /\ NewIndex(St, k) < MaxSlots
    /\ LET s2 == IF k = "DObject" THEN ObjShallowCopy(St, ref, ord)
                 ELSE ArrShallowCopy(St, ref)
       IN  QueuesFit(s2) /\ Commit(s2)
    /\ held' = Acquire(k, NewIndex(St, k))
    /\ ret' = Handle(k, NewIndex(St, k))
    /\ lastOp' = CopyRec("shallow_copy", k, ref, NewIndex(St, k))

NextCopy ==
    /\ UNCHANGED mutexVars
    /\ \/ \E k \in Kinds : HostNew(k)
       \/ \E ref \in Slots, key \in Keys, data \in HostValues : ObjSet(ref, key, data)
       \/ \E ref \in Slots, key \in Keys, k \in Kinds, i \in Slots : ObjPut(ref, key, k, i)
       \/ \E ref \in Slots, data \in HostValues : ArrPush(ref, data)
       \/ \E ref \in Slots, k \in Kinds, i \in Slots : ArrPushH(ref, k, i)
       \/ \E k \in Containers, ref \in Slots, ord \in KeyOrders : HostShallowCopy(k, ref, ord)

SpecCopy == InitCopy /\ [][NextCopy]_vars

----------------------------------------------------------------------------
(* SpecDeep: deep_copy, one recursion step at a time.  thr is the call     *)
(* stack of the host thread inside deep_copy, outermost call first; each   *)
(* frame is one activation: the container copied (kind, src), its new      *)
(* container (new) and the items of self.objects() not yet copied.  The    *)
(* first of them is in the hands of the callee while a frame lies above.   *)

MaxDeepSteps == 5

\* a walk that skips the handle-valued items
CopyItemsNoHandles(s, k, ref, ord) ==
    IF k = "DObject" THEN ObjObjectsNoHandles(s, ref, ord)
    ELSE LET scalars == SelectSeq(ArrObjects(s, ref), LAMBDA d : ~IsHandle(d))
         IN  [n \in 1 .. Len(scalars) |-> <<n, scalars[n]>>]

\* the items a deep_copy of (k, ref) walks: (key, value) pairs of an Object
\* in iteration order ord, (position, value) pairs of an Array
CopyItems(s, k, ref, ord) ==
    IF k = "DObject" THEN ObjObjects(s, ref, ord)
    ELSE [n \in 1 .. Len(ArrObjects(s, ref)) |-> <<n, ArrObjects(s, ref)[n]>>]

Frame(k, ref, new, items) == [kind |-> k, src |-> ref, new |-> new, items |-> items]

\* new_obj.set_property(&key, value) / new_arr.push_property(value)
CopyStore(s, f, item) ==
    IF f.kind = "DObject" THEN ObjSetProperty(s, f.new, item[1], item[2])
    ELSE ArrPushProperty(s, f.new, item[2])

\* new_obj.put_object(&key, copy) / new_arr.push_object(copy) and their
\* _array and _bytes forms: store the index, then the handle copy is dropped
CopyPut(s, f, item, k, i) ==
    IF f.kind = "DObject" THEN ObjPutHandle(s, f.new, item[1], k, i)
    ELSE ArrPushHandle(s, f.new, k, i)

\* DataStream::deep_copy: every field copied
DataStreamDeepCopy(stream) ==
    [data |-> stream.data, len |-> stream.len, read_open |-> stream.read_open,
     write_open |-> stream.write_open, mime_type |-> stream.mime_type]

\* DataBytes::deep_copy
BytesDeepCopy(s, ref) ==
    [s EXCEPT !.bh = HeapPush(@, DataStreamDeepCopy(HeapGet(@, ref)))]

\* a Data::DBytes arm that stores the source's index instead of a copy's
CopyBytesItemShared(s, f, item) == CopyStore(s, f, item)

\* the Data::DBytes arm: get the nested handle, copy it, put the copy, drop
\* the nested handle
CopyBytesItem(s, f, item) ==
    LET s1 == StoreGet(s, "DBytes", item[2].v)
        new == NewIndex(s1, "DBytes")
    IN  DropHandle(CopyPut(BytesDeepCopy(s1, item[2].v), f, item, "DBytes", new),
                   "DBytes", item[2].v)

DeepRec(k, ref, new, done) ==
    [op |-> "deep_copy", kind |-> k, ref |-> ref, new |-> new, done |-> done,
     before |-> IF done THEN lastOp.before ELSE St]

InitDeep == StoreInit /\ MutexIdle /\ limit = MaxDeepSteps

DeepFrame == <<held, ret, lastOp, steps, limit, mtx, cell, mhist>>

\* the host calls o.deep_copy() / a.deep_copy(): DataObject::new() and the
\* snapshot self.objects()
DeepBegin(k, ref, ord) ==
    /\ thr = <<>>
    /\ Called
    /\ held[k][ref] > 0
    /\ NumHeld < MaxHeld
    /\ NewIndex(St, k) < MaxSlots
    /\ Commit(StoreNew(St, k))
    /\ thr' = <<Frame(k, ref, NewIndex(St, k), CopyItems(St, k, ref, ord))>>
    /\ lastOp' = DeepRec(k, ref, NewIndex(St, k), FALSE)
    /\ ret' = DNull
    /\ UNCHANGED <<held, mtx, cell, mhist>>

\* the next item of the innermost call is a scalar or a Bytes handle
DeepItem ==
    /\ thr # <<>>
    /\ LET f == thr[Len(thr)]
       IN  /\ f.items # <<>>
           /\ Head(f.items)[2].t \notin Containers
           /\ IF Head(f.items)[2].t = "DBytes"
              THEN /\ NewIndex(St, "DBytes") < MaxSlots
                   /\ Commit(CopyBytesItem(St, f, Head(f.items)))
              ELSE Commit(CopyStore(St, f, Head(f.items)))
           /\ thr' = [thr EXCEPT ![Len(thr)].items = Tail(@)]
    /\ UNCHANGED DeepFrame

\* the next item is an Object or Array handle: DataObject::get(obj_ref),
\* then nested.deep_copy() begins with its new() and its snapshot
DeepCall(ord) ==
    /\ thr # <<>>
    /\ LET f == thr[Len(thr)]
       IN  /\ f.items # <<>>
           /\ Head(f.items)[2].t \in Containers
           /\ LET d == Head(f.items)[2]
                  s1 == StoreGet(St, d.t, d.v)
              IN  /\ NewIndex(s1, d.t) < MaxSlots
                  /\ Commit(StoreNew(s1, d.t))
                  /\ thr' = Append(thr, Frame(d.t, d.v, NewIndex(s1, d.t),
                                              CopyItems(s1, d.t, d.v, ord)))
    /\ UNCHANGED DeepFrame

\* the innermost call has copied all its items and returns its new handle
\* to the caller, which puts it and drops the nested handle
DeepReturn ==
    /\ Len(thr) > 1
    /\ LET f == thr[Len(thr)]
           c == thr[Len(thr) - 1]
       IN  /\ f.items = <<>>
           /\ Commit(DropHandle(CopyPut(St, c, Head(c.items), f.kind, f.new),
                                f.kind, f.src))
           /\ thr' = [SubSeq(thr, 1, Len(thr) - 1) EXCEPT ![Len(thr) - 1].items = Tail(@)]
    /\ UNCHANGED DeepFrame

\* the outermost call returns its new handle to the host
DeepEnd ==
    /\ Len(thr) = 1
    /\ thr[1].items = <<>>
    /\ thr' = <<>>
    /\ held' = Acquire(thr[1].kind, thr[1].new)
    /\ ret' = Handle(thr[1].kind, thr[1].new)
    /\ lastOp' = DeepRec(thr[1].kind, thr[1].src, thr[1].new, TRUE)
    /\ Commit(St)
    /\ UNCHANGED <<steps, limit, mtx, cell, mhist>>

\* a step of the running deep_copy
DeepRun ==
    \/ DeepItem
    \/ \E ord \in KeyOrders : DeepCall(ord)
    \/ DeepReturn
    \/ DeepEnd

\* a host call outside deep_copy
DeepHost ==
    /\ thr = <<>>
    /\ UNCHANGED mutexVars
    /\ \/ \E k \in Kinds : HostNew(k)
       \/ \E ref \in Slots, key \in Keys, data \in HostValues : ObjSet(ref, key, data)
       \/ \E ref \in Slots, key \in Keys, k \in Kinds, i \in Slots : ObjPut(ref, key, k, i)
       \/ \E ref \in Slots, data \in HostValues : ArrPush(ref, data)
       \/ \E ref \in Slots, k \in Kinds, i \in Slots : ArrPushH(ref, k, i)
       \/ \E ord \in KeyOrders : Gc(ord)

NextDeep ==
    \/ DeepHost
    \/ \E k \in Containers, ref \in Slots, ord \in KeyOrders : DeepBegin(k, ref, ord)
    \/ DeepRun

\* the thread inside deep_copy keeps running
SpecDeep == InitDeep /\ [][NextDeep]_vars /\ WF_vars(DeepRun)

----------------------------------------------------------------------------
(* SpecGc: ndata::gc(), one delete call at a time.  While gc() runs, thr   *)
(* holds the store being collected (phase), the HashMap iteration order    *)
(* (ord) and the delete calls still to be made in the order the recursion  *)
(* makes them (todo): the calls a delete makes come before the rest of its *)
(* caller's loop.                                                          *)

MaxGcSteps == 5

DeleteCall(k, data_ref) == [kind |-> k, data_ref |-> data_ref]
DeleteCalls(k, refs) == [n \in 1 .. Len(refs) |-> DeleteCall(k, refs[n])]

\* a delete that, on a last reference, walks the children and leaves the
\* entry in place
DeleteBodyKeep(hp, c, ord) ==
    LET h == IF c.kind = "DObject" THEN hp.oh ELSE hp.ah
    IN  IF ~HeapContainsKey(h, c.data_ref) THEN [hp |-> hp, calls |-> <<>>]
        ELSE IF HeapCount(h, c.data_ref) = 1
        THEN LET vals == IF c.kind = "DObject"
                         THEN MapValues(HeapGet(h, c.data_ref), ord)
                         ELSE HeapGet(h, c.data_ref)
             IN  [hp |-> hp,
                  calls |-> DeleteCalls("DObject", KillList(vals, "DObject"))
                            \o DeleteCalls("DArray", KillList(vals, "DArray"))]
        ELSE [hp |-> IF c.kind = "DObject"
                     THEN [hp EXCEPT !.oh = HeapDecr(@, c.data_ref)]
                     ELSE [hp EXCEPT !.ah = HeapDecr(@, c.data_ref)],
              calls |-> <<>>]

\* a delete that walks the children of an entry other references share
DeleteBodyCascade(hp, c, ord) ==
    LET h == IF c.kind = "DObject" THEN hp.oh ELSE hp.ah
        h1 == IF c.kind = "DObject"
              THEN [hp EXCEPT !.oh = HeapDecr(@, c.data_ref)]
              ELSE [hp EXCEPT !.ah = HeapDecr(@, c.data_ref)]
    IN  IF ~HeapContainsKey(h, c.data_ref) THEN [hp |-> hp, calls |-> <<>>]
        ELSE IF HeapCount(h, c.data_ref) = 0 THEN [hp |-> hp, calls |-> <<>>]
        ELSE LET vals == IF c.kind = "DObject"
                         THEN MapValues(HeapGet(h, c.data_ref), ord)
                         ELSE HeapGet(h, c.data_ref)
             IN  [hp |-> h1,
                  calls |-> DeleteCalls("DObject", KillList(vals, "DObject"))
                            \o DeleteCalls("DArray", KillList(vals, "DArray"))]

\* DataObject::delete / DataArray::delete without the calls they make: the
\* two heaps they leave and the calls of their two loops
DeleteBody(hp, c, ord) ==
    LET h == IF c.kind = "DObject" THEN hp.oh ELSE hp.ah
        h1 == IF c.kind = "DObject"
              THEN [hp EXCEPT !.oh = HeapDecr(@, c.data_ref)]
              ELSE [hp EXCEPT !.ah = HeapDecr(@, c.data_ref)]
    IN  IF ~HeapContainsKey(h, c.data_ref) THEN [hp |-> hp, calls |-> <<>>]
        ELSE IF HeapCount(h, c.data_ref) = 0 THEN [hp |-> hp, calls |-> <<>>]
        ELSE IF HeapCount(h, c.data_ref) = 1
        THEN LET vals == IF c.kind = "DObject"
                         THEN MapValues(HeapGet(h, c.data_ref), ord)
                         ELSE HeapGet(h, c.data_ref)
             IN  [hp |-> h1,
                  calls |-> DeleteCalls("DObject", KillList(vals, "DObject"))
                            \o DeleteCalls("DArray", KillList(vals, "DArray"))]
        ELSE [hp |-> h1, calls |-> <<>>]

GcRec(ord) == [op |-> "gc", ord |-> ord, before |-> St]

InitGc == StoreInit /\ MutexIdle /\ limit = MaxGcSteps

\* ndata::gc() is called: DataObject::gc drains OBJECT_DROP_QUEUE
GcBegin(ord) ==
    /\ thr = <<>>
    /\ Called
    /\ thr' = [phase |-> "DObject", ord |-> ord, todo |-> DeleteCalls("DObject", odrop)]
    /\ odrop' = <<>>
    /\ lastOp' = GcRec(ord)
    /\ ret' = DNull
    /\ UNCHANGED <<oheap, aheap, bheap, adrop, bdrop, held, mtx, cell, mhist>>

\* the next delete call is made
GcDelete ==
    /\ thr # <<>>
    /\ thr.todo # <<>>
    /\ LET r == DeleteBody([oh |-> oheap, ah |-> aheap], Head(thr.todo), thr.ord)
       IN  /\ oheap' = r.hp.oh /\ aheap' = r.hp.ah
           /\ thr' = [thr EXCEPT !.todo = r.calls \o Tail(@)]
    /\ UNCHANGED <<bheap, odrop, adrop, bdrop, held, ret, lastOp, steps, limit, mtx, cell, mhist>>

\* DataObject::gc returns, DataArray::gc drains ARRAY_DROP_QUEUE
GcArrays ==
    /\ thr # <<>>
    /\ thr.todo = <<>> /\ thr.phase = "DObject"
    /\ thr' = [thr EXCEPT !.phase = "DArray", !.todo = DeleteCalls("DArray", adrop)]
    /\ adrop' = <<>>
    /\ UNCHANGED <<oheap, aheap, bheap, odrop, bdrop, held, ret, lastOp, steps, limit, mtx, cell, mhist>>

\* DataArray::gc returns, DataBytes::gc runs, ndata::gc returns
GcEnd ==
    /\ thr # <<>>
    /\ thr.todo = <<>> /\ thr.phase = "DArray"
    /\ thr' = <<>>
    /\ bheap' = BytesDecrAll(bheap, bdrop)
    /\ bdrop' = <<>>
    /\ UNCHANGED <<oheap, aheap, odrop, adrop, held, ret, lastOp, steps, limit, mtx, cell, mhist>>

GcRun == GcDelete \/ GcArrays \/ GcEnd

\* a handle built from a bare index (data_ref is a public field) is dropped
HostDropRaw(k, i) ==
    /\ Called
    /\ LET s2 == DropHandle(St, k, i)
       IN  QueuesFit(s2) /\ Commit(s2)
    /\ ret' = DNull /\ lastOp' = NoOp
    /\ UNCHANGED held

\* every handle the host holds has a live target: a container call through a
\* handle whose entry a raw drop took away panics and is not made
HandlesLive ==
    \A k \in Kinds, i \in Slots : held[k][i] > 0 => HeapContainsKey(HeapOf(St, k), i)

\* a host call outside gc()
GcHost ==
    /\ thr = <<>>
    /\ UNCHANGED mutexVars
    /\ \/ \E k \in Kinds : HostNew(k)
       \/ \E k \in Kinds, i \in Slots : HostDrop(k, i)
       \/ \E k \in Kinds, i \in Slots : HostDropRaw(k, i)
       \/ /\ HandlesLive
          /\ \/ \E ref \in Slots, key \in Keys, data \in HostValues : ObjSet(ref, key, data)
             \/ \E ref \in Slots, key \in Keys, k \in Kinds, i \in Slots : ObjPut(ref, key, k, i)
             \/ \E ref \in Slots, data \in HostValues : ArrPush(ref, data)
             \/ \E ref \in Slots, k \in Kinds, i \in Slots : ArrPushH(ref, k, i)

NextGc ==
    \/ GcHost
    \/ \E ord \in KeyOrders : GcBegin(ord)
    \/ GcRun

\* the thread inside gc() keeps running
SpecGc == InitGc /\ [][NextGc]_vars /\ WF_vars(GcRun)

----------------------------------------------------------------------------
(* SpecInit: the statics of the three stores from process start.  The six  *)
(* SharedMutex statics start Uninitialized; the host calls init(), the     *)
(* init() of one store, mirror() with the addresses of another process,    *)
(* and store operations on the stores that are initialized.                *)

MaxInitSteps == 5

\* where the statics of this process are, and the addresses another process
\* shared: one lock word and one payload per address
\* OBJECT_HEAP, ARRAY_HEAP, BH at addresses 1..3, their queues at 4..6
Statics == 1 .. 6
HeapStatic(k) == CASE k = "DObject" -> 1 [] k = "DArray" -> 2 [] k = "DBytes" -> 3
QueueStatic(k) == HeapStatic(k) + 3
ForeignLocks == 7 .. 12
ForeignOf(l) == l + 6
Bundle(v) == [t |-> "Bundle", v |-> v]

InitKinds == <<"DObject", "DArray", "DBytes">>

\* Self::share(): (OBJECT_HEAP.share(), OBJECT_DROP_QUEUE.share())
StoreShare(w, k) ==
    IF SMShareFails(w, HeapStatic(k)) \/ SMShareFails(w, QueueStatic(k))
    THEN [w EXCEPT !.panicked = TRUE]
    ELSE [w EXCEPT !.out = Append(@, <<SMShare(w, HeapStatic(k)), SMShare(w, QueueStatic(k))>>)]

\* the set of a payload is the start of its store variable
SetStore(s, k) ==
    IF k = "DObject" THEN [s EXCEPT !.oh = HeapNew, !.od = <<>>]
    ELSE IF k = "DArray" THEN [s EXCEPT !.ah = HeapNew, !.ad = <<>>]
    ELSE [s EXCEPT !.bh = HeapNew, !.bd = <<>>]

\* an init() that sets the statics whatever their state
StoreInitAlways(w, k) ==
    IF w.panicked THEN w
    ELSE LET w1 == SMSetUnchecked(w, HeapStatic(k), "heap")
             w2 == SMSetUnchecked(w1, QueueStatic(k), "queue")
         IN  StoreShare([mtx |-> w2.mtx, cell |-> w2.cell, panicked |-> FALSE,
                         s |-> SetStore(w.s, k), out |-> w.out], k)

\* DataObject::init / DataArray::init / DataBytes::init on the process
\* w = [mtx, cell, s, out, panicked]; out collects the pairs returned
StoreInitOf(w, k) ==
    IF w.panicked THEN w
    ELSE IF w.mtx[HeapStatic(k)].state # "Uninitialized" THEN StoreShare(w, k)
    ELSE LET w1 == SMSet(w, HeapStatic(k), "heap")
             w2 == SMSet(w1, QueueStatic(k), "queue")
         IN  IF w2.panicked
             THEN [mtx |-> w1.mtx, cell |-> w1.cell, panicked |-> TRUE,
                   s |-> SetStore(w.s, k), out |-> w.out]
             ELSE StoreShare([mtx |-> w2.mtx, cell |-> w2.cell, panicked |-> FALSE,
                              s |-> SetStore(w.s, k), out |-> w.out], k)

\* DataObject::mirror / DataArray::mirror / DataBytes::mirror
StoreMirrorOf(w, k, q, r) ==
    IF w.panicked THEN w
    ELSE LET w1 == SMMirror(w, HeapStatic(k), q[1], q[2])
             w2 == SMMirror(w1, QueueStatic(k), r[1], r[2])
         IN  IF w1.panicked THEN [w EXCEPT !.panicked = TRUE]
             ELSE [mtx |-> w2.mtx, cell |-> w2.cell, panicked |-> w2.panicked,
                   s |-> w.s, out |-> w.out]

RECURSIVE InitAll(_, _)
\* ndata::init: (DataObject::init(), DataArray::init(), DataBytes::init())
InitAll(w, kinds) ==
    IF kinds = <<>> THEN w ELSE InitAll(StoreInitOf(w, Head(kinds)), Tail(kinds))

RECURSIVE MirrorAll(_, _)
\* ndata::mirror with the bundle of the other process
MirrorAll(w, kinds) ==
    IF kinds = <<>> THEN w
    ELSE MirrorAll(StoreMirrorOf(w, Head(kinds),
                                 <<ForeignOf(HeapStatic(Head(kinds))), ForeignOf(HeapStatic(Head(kinds)))>>,
                                 <<ForeignOf(QueueStatic(Head(kinds))), ForeignOf(QueueStatic(Head(kinds)))>>),
                   Tail(kinds))

Process == [mtx |-> mtx, cell |-> cell, s |-> St, out |-> <<>>, panicked |-> FALSE]

\* again: every store the call initializes has returned its pair before
InitRec(kinds) ==
    [op |-> "init", kinds |-> kinds, before |-> St,
     again |-> \A n \in 1 .. Len(kinds) : mhist[kinds[n]] # <<>>]

InitInit ==
    /\ StoreInit /\ limit = MaxInitSteps
    /\ mtx = [l \in Statics |-> SMNew]
    /\ cell = [lock |-> [l \in Statics \cup ForeignLocks |-> UNLOCKED],
               data |-> [l \in Statics \cup ForeignLocks |->
                            IF l \in ForeignLocks THEN Some("foreign") ELSE None]]
    /\ thr = <<>>
    /\ mhist = [k \in Kinds |-> <<>>]

\* the call returns what w holds
InitReturn(w, kinds) ==
    /\ mtx' = w.mtx /\ cell' = w.cell
    /\ Commit(w.s)
    /\ ret' = IF w.panicked THEN Panic ELSE Bundle(w.out)
    /\ mhist' = [k \in Kinds |->
                    IF mhist[k] = <<>> /\ \E n \in 1 .. Len(w.out) : kinds[n] = k
                    THEN w.out[CHOOSE n \in 1 .. Len(w.out) : kinds[n] = k]
                    ELSE mhist[k]]
    /\ UNCHANGED <<held, thr>>

\* ndata::init()
NdataInit ==
    /\ Called
    /\ lastOp' = InitRec(InitKinds)
    /\ InitReturn(InitAll(Process, InitKinds), InitKinds)

\* DataObject::init(), DataArray::init() or DataBytes::init() alone
StoreInitCall(k) ==
    /\ Called
    /\ lastOp' = InitRec(<<k>>)
    /\ InitReturn(StoreInitOf(Process, k), <<k>>)

\* ndata::mirror(bundle of another process)
NdataMirror ==
    /\ Called
    /\ lastOp' = NoOp
    /\ LET w == MirrorAll(Process, InitKinds)
       IN  /\ mtx' = w.mtx /\ cell' = w.cell
           /\ ret' = IF w.panicked THEN Panic ELSE DNull
    /\ UNCHANGED <<oheap, aheap, bheap, odrop, adrop, bdrop, held, thr, mhist>>

\* lock() of an Uninitialized static panics: the host calls the operations of
\* a store once its statics are initialized
StoreReady(k) == IsInitialized(HeapStatic(k)) /\ IsInitialized(QueueStatic(k))

InitHost ==
    /\ UNCHANGED mutexVars
    /\ \/ \E k \in Kinds : StoreReady(k) /\ HostNew(k)
       \/ \E k \in Kinds, i \in Slots : HostClone(k, i)
       \/ \E k \in Kinds, i \in Slots : HostDrop(k, i)
       \/ \E ref \in Slots, key \in Keys, data \in HostValues : ObjSet(ref, key, data)
       \/ \E ref \in Slots, data \in HostValues : ArrPush(ref, data)
       \/ \E ord \in KeyOrders : (\A k \in Kinds : StoreReady(k)) /\ Gc(ord)

NextInit ==
    \/ NdataInit
    \/ \E k \in Kinds : StoreInitCall(k)
    \/ NdataMirror
    \/ InitHost

SpecInit == InitInit /\ [][NextInit]_vars

----------------------------------------------------------------------------
(* SpecGlobal: one GlobalSharedMutex<T> shared by the threads, one atomic  *)
(* access per step.  mtx[0] holds its two atomics (state, ptr); the        *)
(* SharedMutex that init() boxes is the instance at address 1, and ptr = 0 *)
(* is the null pointer.  A turn of spin_loop() leaves the state as it is   *)
(* and is not a step.                                                      *)

MaxGlobalCalls == 3      \* calls the threads make in all

GLOBAL_UNINITIALIZED == 0
GLOBAL_INITIALIZING == 1
GLOBAL_INITIALIZED == 2

\* GlobalSharedMutex::new()
GlobalNew == [state |-> GLOBAL_UNINITIALIZED, ptr |-> 0]

GlobalOps == {"init", "read", "lock"}

NoOutcome == [op |-> "", res |-> "none", v |-> 0, won |-> FALSE, during |-> FALSE,
              waited |-> FALSE]
GlobalIdle ==
    [pc |-> "idle", op |-> "", data |-> 0, spun |-> FALSE, out |-> NoOutcome]

\* a get_mutex that takes the pointer as soon as an init() has begun
GetMutexSeesEarly(state) ==
    IF state = GLOBAL_INITIALIZED \/ state = GLOBAL_INITIALIZING THEN "ready"
    ELSE "panic"

\* the match of get_mutex on the state it loads
GetMutexSees(state) ==
    IF state = GLOBAL_INITIALIZED THEN "ready"
    ELSE IF state = GLOBAL_INITIALIZING THEN "spin"
    ELSE "panic"

\* another thread is inside a call of init()
InitRunning(t) ==
    \E u \in Threads \ {t} : thr[u].op = "init" /\ thr[u].pc \notin {"idle", "dead"}

\* the call of thread t ends
GlobalEnds(t, res, v, won) ==
    thr' = [thr EXCEPT ![t].pc = IF res \in {"panicked", "null"} THEN "dead" ELSE "idle",
                       ![t].out = [op |-> thr[t].op, res |-> res, v |-> v, won |-> won,
                                   during |-> InitRunning(t), waited |-> thr[t].spun]]

GlobalGoes(t, pc) == thr' = [thr EXCEPT ![t].pc = pc]

InitGlobal ==
    /\ StoreIdle
    /\ mtx = [m \in {0, 1} |-> IF m = 0 THEN GlobalNew ELSE SMNew]
    /\ cell = [lock |-> [m \in {1} |-> UNLOCKED], data |-> [m \in {1} |-> None]]
    /\ thr = [t \in Threads |-> GlobalIdle]
    /\ mhist = [calls |-> 0, sets |-> 0, by |-> 0, val |-> 0]

\* thread t calls g.init(data), g.read() or g.lock()
GlobalCall(t, op, data) ==
    /\ thr[t].pc = "idle"
    /\ mhist.calls < MaxGlobalCalls
    /\ mhist' = [mhist EXCEPT !.calls = @ + 1]
    /\ thr' = [thr EXCEPT ![t] = [pc |-> IF op = "init" THEN "cas" ELSE "load",
                                  op |-> op, data |-> IF op = "init" THEN data ELSE 0,
                                  spun |-> FALSE, out |-> NoOutcome]]
    /\ UNCHANGED <<mtx, cell>>

\* init: state.compare_exchange(GLOBAL_UNINITIALIZED, GLOBAL_INITIALIZING) and
\* the arms of its result that need no further load
GlobalInitCas(t) ==
    /\ thr[t].pc = "cas"
    /\ IF mtx[0].state = GLOBAL_UNINITIALIZED
       THEN /\ mtx' = [mtx EXCEPT ![0].state = GLOBAL_INITIALIZING]
            /\ GlobalGoes(t, "set")
       ELSE /\ UNCHANGED mtx
            /\ IF mtx[0].state = GLOBAL_INITIALIZING
               THEN GlobalGoes(t, "spin")
               ELSE GlobalEnds(t, "panicked", 0, FALSE)
    /\ UNCHANGED <<cell, mhist>>

\* init: Box::new(SharedMutex::new()) and boxed_sm.set(data)
GlobalInitSet(t) ==
    /\ thr[t].pc = "set"
    /\ LET mc == SMSet([mtx |-> [mtx EXCEPT ![1] = SMNew], cell |-> cell], 1, thr[t].data)
       IN  mtx' = mc.mtx /\ cell' = mc.cell
    /\ mhist' = [mhist EXCEPT !.sets = @ + 1, !.by = t, !.val = thr[t].data]
    /\ GlobalGoes(t, "store_ptr")

\* init: self.ptr.store(Box::into_raw(boxed_sm))
GlobalInitStorePtr(t) ==
    /\ thr[t].pc = "store_ptr"
    /\ mtx' = [mtx EXCEPT ![0].ptr = 1]
    /\ GlobalGoes(t, "store_state")
    /\ UNCHANGED <<cell, mhist>>

\* init: self.state.store(GLOBAL_INITIALIZED), and the call returns
GlobalInitStoreState(t) ==
    /\ thr[t].pc = "store_state"
    /\ mtx' = [mtx EXCEPT ![0].state = GLOBAL_INITIALIZED]
    /\ GlobalEnds(t, "returned", 0, TRUE)
    /\ UNCHANGED <<cell, mhist>>

\* init, Err(GLOBAL_INITIALIZING): the while loop ends
GlobalInitSpin(t) ==
    /\ thr[t].pc = "spin"
    /\ mtx[0].state # GLOBAL_INITIALIZING
    /\ GlobalGoes(t, "check")
    /\ UNCHANGED <<mtx, cell, mhist>>

\* init, Err(GLOBAL_INITIALIZING): the load after the loop
GlobalInitCheck(t) ==
    /\ thr[t].pc = "check"
    /\ IF mtx[0].state # GLOBAL_INITIALIZED
       THEN GlobalEnds(t, "panicked", 0, FALSE)
       ELSE GlobalEnds(t, "returned", 0, FALSE)
    /\ UNCHANGED <<mtx, cell, mhist>>

\* get_mutex: self.state.load(); a load that finds GLOBAL_INITIALIZING goes
\* round the loop ("wait": the call has spun)
GlobalGetLoad(t) ==
    /\ thr[t].pc \in {"load", "wait"}
    /\ LET sees == GetMutexSees(mtx[0].state)
       IN  IF sees = "ready" THEN GlobalGoes(t, "ptr")
           ELSE IF sees = "spin"
           THEN thr[t].pc = "load" /\ thr' = [thr EXCEPT ![t].pc = "wait", ![t].spun = TRUE]
           ELSE GlobalEnds(t, "panicked", 0, FALSE)
    /\ UNCHANGED <<mtx, cell, mhist>>

\* get_mutex: self.ptr.load() and &*ptr; then "if !self.is_initialized()" of
\* SharedMutex::lock / read
GlobalGetPtr(t) ==
    /\ thr[t].pc = "ptr"
    /\ IF mtx[0].ptr = 0 THEN GlobalEnds(t, "null", 0, FALSE)
       ELSE IF LockFails(mtx[0].ptr) THEN GlobalEnds(t, "panicked", 0, FALSE)
       ELSE GlobalGoes(t, "acquire")
    /\ UNCHANGED <<mtx, cell, mhist>>

\* SharedMutex::lock / read: the compare_exchange_weak that takes the lock
GlobalAcquire(t) ==
    /\ thr[t].pc = "acquire"
    /\ IF thr[t].op = "lock"
       THEN /\ CanLock(LockWord(1))
            /\ cell' = [cell EXCEPT !.lock[1] = WRITE_LOCKED]
       ELSE /\ CanRead(LockWord(1))
            /\ cell' = [cell EXCEPT !.lock[1] = @ + 1]
    /\ GlobalGoes(t, "use")
    /\ UNCHANGED <<mtx, mhist>>

\* *guard is read and the guard is dropped
GlobalUse(t) ==
    /\ thr[t].pc = "use"
    /\ cell' = [cell EXCEPT !.lock[1] = IF thr[t].op = "lock" THEN UNLOCKED ELSE @ - 1]
    /\ GlobalEnds(t, "value", Payload(1), FALSE)
    /\ UNCHANGED <<mtx, mhist>>

\* the steps of a call of thread t that has begun
GlobalRun(t) ==
    /\ UNCHANGED storeVars
    /\ \/ GlobalInitCas(t)
       \/ GlobalInitSet(t)
       \/ GlobalInitStorePtr(t)
       \/ GlobalInitStoreState(t)
       \/ GlobalInitSpin(t)
       \/ GlobalInitCheck(t)
       \/ GlobalGetLoad(t)
       \/ GlobalGetPtr(t)
       \/ GlobalAcquire(t)
       \/ GlobalUse(t)

NextGlobal ==
    \E t \in Threads :
        \/ /\ UNCHANGED storeVars
           /\ \E op \in GlobalOps, data \in SetValues : GlobalCall(t, op, data)
        \/ GlobalRun(t)

\* every thread inside a call keeps running
SpecGlobal ==
    InitGlobal /\ [][NextGlobal]_vars /\ \A t \in Threads : WF_vars(GlobalRun(t))

----------------------------------------------------------------------------
(* SpecThreads: threads calling the store API, one locked section per      *)
(* step.  A call that takes a heap lock, releases it and later takes a     *)
(* lock again (incr then push, insert then drop of the old value, read     *)
(* then DataObject::get) is as many steps; thr[t] keeps what the call      *)
(* holds between them.  mhist counts, per index, the entries that new()    *)
(* has made there, so that an index can be told from the entry it names.   *)

MaxThreadSteps == 4

\* self: the handle the call in flight was made through
ThreadIdle == [pc |-> "idle", self |-> DNull, d |-> DNull, ref |-> 0, gen |-> 0, ord |-> <<>>]

\* the entry (index and how many entries the index has named) of a handle value
GenOf(d) == mhist[d.t][d.v]

ThreadsFrame(t, rec) == thr' = [thr EXCEPT ![t] = rec] /\ UNCHANGED <<mtx, cell>>

InitThreads ==
    /\ StoreInit /\ limit = MaxThreadSteps
    /\ mtx = <<>> /\ cell = <<>>
    /\ thr = [t \in Threads |-> ThreadIdle]
    /\ mhist = [k \in Kinds |-> [i \in Slots |-> 0]]

\* new(), clone() and the drop of a handle are one locked section each
ThreadNew(t, k) ==
    /\ thr[t].pc = "idle"
    /\ HostNew(k)
    /\ mhist' = [mhist EXCEPT ![k][NewIndex(St, k)] = @ + 1]
    /\ UNCHANGED <<mtx, cell, thr>>

ThreadClone(t, k, i) ==
    /\ thr[t].pc = "idle"
    /\ HostClone(k, i)
    /\ UNCHANGED mutexVars

\* a handle that a call in flight borrows cannot go out of scope
Borrowed(k, i) == Cardinality({u \in Threads : thr[u].self = Handle(k, i)})

ThreadDrop(t, k, i) ==
    /\ thr[t].pc = "idle"
    /\ Called
    /\ held[k][i] > Borrowed(k, i)
    /\ held' = Release(k, i)
    /\ Commit(DropHandle(St, k, i))
    /\ ret' = DNull /\ lastOp' = NoOp
    /\ UNCHANGED mutexVars

\* o.set_property(key, data) up to the end of the match: the increment and
\* the insert under the Object heap guard
ThreadObjSet(t, ref, key, data) ==
    /\ thr[t].pc = "idle"
    /\ Called
    /\ held["DObject"][ref] > 0
    /\ LET s1 == IncrTarget(St, data)
           old == HeapGet(s1.oh, ref)[key]
       IN  /\ Commit([s1 EXCEPT !.oh = HeapPut(@, ref, [HeapGet(@, ref) EXCEPT ![key] = data])])
           /\ ThreadsFrame(t, [ThreadIdle EXCEPT !.pc = "drop_old", !.self = DObject(ref), !.d = old])
    /\ ret' = DNull /\ lastOp' = NoOp
    /\ UNCHANGED <<held, mhist>>

\* o.remove_property(key) up to the release of the Object heap guard
ThreadObjRemove(t, ref, key) ==
    /\ thr[t].pc = "idle"
    /\ Called
    /\ held["DObject"][ref] > 0
    /\ Commit([St EXCEPT !.oh = HeapPut(@, ref, [HeapGet(@, ref) EXCEPT ![key] = Absent])])
    /\ ThreadsFrame(t, [ThreadIdle EXCEPT !.pc = "drop_old", !.self = DObject(ref),
                                          !.d = HeapGet(oheap, ref)[key]])
    /\ ret' = DNull /\ lastOp' = NoOp
    /\ UNCHANGED <<held, mhist>>

\* a.remove_property(id) up to the release of the Array heap guard
ThreadArrRemove(t, ref, id) ==
    /\ thr[t].pc = "idle"
    /\ Called
    /\ held["DArray"][ref] > 0
    /\ id < Len(HeapGet(aheap, ref))
    /\ Commit([St EXCEPT !.ah = HeapPut(@, ref, VecRemove(HeapGet(@, ref), id))])
    /\ ThreadsFrame(t, [ThreadIdle EXCEPT !.pc = "drop_old", !.self = DArray(ref),
                                          !.d = HeapGet(aheap, ref)[id + 1]])
    /\ ret' = DNull /\ lastOp' = NoOp
    /\ UNCHANGED <<held, mhist>>

\* the handle rebuilt around the value taken out is dropped
ThreadDropOld(t) ==
    /\ thr[t].pc = "drop_old"
    /\ Commit(DropOld(St, thr[t].d))
    /\ ThreadsFrame(t, ThreadIdle)
    /\ UNCHANGED <<held, ret, lastOp, steps, limit, mhist>>

\* the pushes other threads are about to make on array ref
PushesInFlight(ref) == Cardinality({u \in Threads : thr[u].pc = "push" /\ thr[u].ref = ref})

\* a.push_property(data): the increment of the match
ThreadArrPushIncr(t, ref, data) ==
    /\ thr[t].pc = "idle"
    /\ Called
    /\ held["DArray"][ref] > 0
    /\ Len(HeapGet(aheap, ref)) + PushesInFlight(ref) < MaxLen
    /\ Commit(IncrTarget(St, data))
    /\ ThreadsFrame(t, [ThreadIdle EXCEPT !.pc = "push", !.self = DArray(ref), !.d = data, !.ref = ref])
    /\ ret' = DNull /\ lastOp' = NoOp
    /\ UNCHANGED <<held, mhist>>

\* a.push_property(data): vec.push(data) under the Array heap guard
ThreadArrPush(t) ==
    /\ thr[t].pc = "push"
    /\ Commit([St EXCEPT !.ah = HeapPut(@, thr[t].ref, Append(HeapGet(@, thr[t].ref), thr[t].d))])
    /\ ThreadsFrame(t, ThreadIdle)
    /\ UNCHANGED <<held, ret, lastOp, steps, limit, mhist>>

\* the handles that calls in flight are about to hand out
GetsInFlight == Cardinality({u \in Threads : thr[u].pc = "get"})

\* o.get_object(key) / get_array / get_bytes: get_property(key) clones the
\* stored Data under the Object heap guard
ThreadObjGetRead(t, ref, key) ==
    /\ thr[t].pc = "idle"
    /\ Called
    /\ held["DObject"][ref] > 0
    /\ NumHeld + GetsInFlight < MaxHeld
    /\ IsHandle(ObjGetProperty(St, ref, key))
    /\ ThreadsFrame(t, [ThreadIdle EXCEPT !.pc = "get", !.self = DObject(ref),
                                          !.d = ObjGetProperty(St, ref, key),
                                          !.gen = GenOf(ObjGetProperty(St, ref, key))])
    /\ ret' = DNull /\ lastOp' = NoOp
    /\ UNCHANGED <<oheap, aheap, bheap, odrop, adrop, bdrop, held, mhist>>

\* a.get_object(id) / get_array / get_bytes: get_property(id)
ThreadArrGetRead(t, ref, id) ==
    /\ thr[t].pc = "idle"
    /\ Called
    /\ held["DArray"][ref] > 0
    /\ id < Len(HeapGet(aheap, ref))
    /\ NumHeld + GetsInFlight < MaxHeld
    /\ IsHandle(ArrGetProperty(St, ref, id))
    /\ ThreadsFrame(t, [ThreadIdle EXCEPT !.pc = "get", !.self = DArray(ref),
                                          !.d = ArrGetProperty(St, ref, id),
                                          !.gen = GenOf(ArrGetProperty(St, ref, id))])
    /\ ret' = DNull /\ lastOp' = NoOp
    /\ UNCHANGED <<oheap, aheap, bheap, odrop, adrop, bdrop, held, mhist>>

\* what a finished get_object / get_array / get_bytes is recorded as: the
\* value read, the entry it named when read, the entry the handle names
GotRec(d, gen, now) == [NoOp EXCEPT !.op = "get_handle", !.data = d, !.cold = gen, !.cnew = now]

\* Data::object() / array() / bytes(): DataObject::get(i) takes the heap
\* lock again and increments, or panics in Heap::incr
ThreadGetIncr(t) ==
    /\ thr[t].pc = "get"
    /\ IF TargetLive(St, thr[t].d)
       THEN /\ Commit(StoreGet(St, thr[t].d.t, thr[t].d.v))
            /\ held' = Acquire(thr[t].d.t, thr[t].d.v)
            /\ ret' = thr[t].d
            /\ lastOp' = GotRec(thr[t].d, thr[t].gen, GenOf(thr[t].d))
       ELSE /\ Commit(St)
            /\ UNCHANGED held
            /\ ret' = Panic
            /\ lastOp' = NoOp
    /\ ThreadsFrame(t, ThreadIdle)
    /\ UNCHANGED <<steps, limit, mhist>>

\* ndata::gc(): DataObject::gc() holds both container heaps and its queue
ThreadGcObjects(t, ord) ==
    /\ thr[t].pc = "idle"
    /\ Called
    /\ Commit(ObjectGc(St, ord))
    /\ ThreadsFrame(t, [ThreadIdle EXCEPT !.pc = "gc_arrays", !.ord = ord])
    /\ ret' = DNull /\ lastOp' = NoOp
    /\ UNCHANGED <<held, mhist>>

\* ndata::gc(): DataArray::gc()
ThreadGcArrays(t) ==
    /\ thr[t].pc = "gc_arrays"
    /\ Commit(ArrayGc(St, thr[t].ord))
    /\ ThreadsFrame(t, [thr[t] EXCEPT !.pc = "gc_bytes"])
    /\ UNCHANGED <<held, ret, lastOp, steps, limit, mhist>>

\* ndata::gc(): DataBytes::gc()
ThreadGcBytes(t) ==
    /\ thr[t].pc = "gc_bytes"
    /\ Commit(BytesGc(St))
    /\ ThreadsFrame(t, ThreadIdle)
    /\ UNCHANGED <<held, ret, lastOp, steps, limit, mhist>>

NextThreads ==
    \E t \in Threads :
        \/ \E k \in Kinds : ThreadNew(t, k)
        \/ \E k \in Kinds, i \in Slots : ThreadClone(t, k, i)
        \/ \E k \in Kinds, i \in Slots : ThreadDrop(t, k, i)
        \/ \E ref \in Slots, key \in Keys, data \in HostValues : ThreadObjSet(t, ref, key, data)
        \/ \E ref \in Slots, key \in Keys : ThreadObjRemove(t, ref, key)
        \/ \E ref \in Slots, id \in 0 .. (MaxLen - 1) : ThreadArrRemove(t, ref, id)
        \/ ThreadDropOld(t)
        \/ \E ref \in Slots, data \in HostValues : ThreadArrPushIncr(t, ref, data)
        \/ ThreadArrPush(t)
        \/ \E ref \in Slots, key \in Keys : ThreadObjGetRead(t, ref, key)
        \/ \E ref \in Slots, id \in 0 .. (MaxLen - 1) : ThreadArrGetRead(t, ref, id)
        \/ ThreadGetIncr(t)
        \/ \E ord \in KeyOrders : ThreadGcObjects(t, ord)
        \/ ThreadGcArrays(t)
        \/ ThreadGcBytes(t)

SpecThreads == InitThreads /\ [][NextThreads]_vars

----------------------------------------------------------------------------
(* SpecPop: a host that takes elements out of Arrays with pop_property,    *)
(* remove_property and remove_data, and collects.                          *)

MaxPopSteps == 5

\* Vec::iter().position(|d| Data::equals(d, b)): the first index holding b, or None
Position(vec, b) ==
    IF \E n \in 1 .. Len(vec) : vec[n] = b
    THEN Some(CHOOSE n \in 1 .. Len(vec) : vec[n] = b /\ \A m \in 1 .. (n - 1) : vec[m] # b)
    ELSE None

\* DataArray::remove_data on a live array
ArrRemoveData(s, ref, b) ==
    LET vec == HeapGet(s.ah, ref)
        index_opt == Position(vec, b)
    IN  IF index_opt = None THEN s
        ELSE DropOld([s EXCEPT !.ah = HeapPut(@, ref, VecRemove(vec, index_opt[1] - 1))],
                     vec[index_opt[1]])

\* what a call that took old out of an array is recorded as: old's count
\* before the call, and whether every pending queue was empty then
TakeRec(op, old) ==
    [NoOp EXCEPT !.op = op, !.old = old,
                 !.cold = IF IsHandle(old) THEN CountOf(St, old) ELSE 0,
                 !.quiet = odrop = <<>> /\ adrop = <<>> /\ bdrop = <<>>]

InitPop == StoreInit /\ MutexIdle /\ limit = MaxPopSteps

\* let d = a.pop_property(id); d goes out of scope (Data has no Drop)
ArrPop(ref, id) ==
    /\ Called
    /\ held["DArray"][ref] > 0
    /\ id < Len(HeapGet(aheap, ref))
    /\ Commit(ArrPopProperty(St, ref, id))
    /\ ret' = HeapGet(aheap, ref)[id + 1]
    /\ lastOp' = TakeRec("a.pop_property", HeapGet(aheap, ref)[id + 1])
    /\ UNCHANGED held

\* a.remove_property(id)
ArrTake(ref, id) ==
    /\ Called
    /\ held["DArray"][ref] > 0
    /\ id < Len(HeapGet(aheap, ref))
    /\ Commit(ArrRemoveProperty(St, ref, id))
    /\ ret' = DNull
    /\ lastOp' = TakeRec("a.remove_property", HeapGet(aheap, ref)[id + 1])
    /\ UNCHANGED held

\* a.remove_data(b)
ArrTakeData(ref, b) ==
    /\ Called
    /\ held["DArray"][ref] > 0
    /\ Commit(ArrRemoveData(St, ref, b))
    /\ ret' = DNull
    /\ lastOp' = IF Position(HeapGet(aheap, ref), b) = None THEN NoOp
                 ELSE TakeRec("a.remove_data", b)
    /\ UNCHANGED held

NextPop ==
    /\ UNCHANGED mutexVars
    /\ \/ \E k \in Kinds : HostNew(k)
       \/ \E k \in Kinds, i \in Slots : HostDrop(k, i)
       \/ \E ref \in Slots, data \in HostValues : ArrPush(ref, data)
       \/ \E ref \in Slots, id \in 0 .. (MaxLen - 1) : ArrPop(ref, id)
       \/ \E ref \in Slots, id \in 0 .. (MaxLen - 1) : ArrTake(ref, id)
       \/ \E ref \in Slots, b \in HostValues : ArrTakeData(ref, b)
       \/ \E ord \in KeyOrders : Gc(ord)

SpecPop == InitPop /\ [][NextPop]_vars

----------------------------------------------------------------------------
(* SpecGet: the threads of SpecThreads started on a store that the main    *)
(* thread has filled: one container (an Object or an Array) that the       *)
(* threads share a handle to, holding one child whose only reference is    *)
(* the container's slot.                                                   *)

MaxGetSteps == 4

StoreEmpty == [oh |-> HeapNew, ah |-> HeapNew, bh |-> HeapNew,
               od |-> <<>>, ad |-> <<>>, bd |-> <<>>]

\* the index of the child: the second entry of its heap when it is of the
\* container's kind
ChildIndex(c, k) == NewIndex(StoreNew(StoreEmpty, c), k)

\* let mut c = new(); c.put_*("a", new()) or c.push_*(new()); ndata::gc();
SharedStore(c, k, ord) ==
    LET s2 == StoreNew(StoreNew(StoreEmpty, c), k)
    IN  NdataGc(IF c = "DObject"
                THEN ObjPutHandle(s2, 0, "a", k, ChildIndex(c, k))
                ELSE ArrPushHandle(s2, 0, k, ChildIndex(c, k)),
                ord)

InitGet ==
    /\ \E c \in {"DObject", "DArray"}, k \in Kinds, ord \in KeyOrders :
          /\ oheap = SharedStore(c, k, ord).oh
          /\ aheap = SharedStore(c, k, ord).ah
          /\ bheap = SharedStore(c, k, ord).bh
          /\ odrop = <<>> /\ adrop = <<>> /\ bdrop = <<>>
          /\ held = [NoHandles EXCEPT ![c][0] = 1]
          /\ mhist = [j \in Kinds |-> [i \in Slots |->
                         IF HeapContainsKey(HeapOf(SharedStore(c, k, ord), j), i)
                         THEN 1 ELSE 0]]
    /\ ret = DNull /\ lastOp = NoOp /\ steps = 0 /\ limit = MaxGetSteps
    /\ mtx = <<>> /\ cell = <<>>
    /\ thr = [t \in Threads |-> ThreadIdle]

SpecGet == InitGet /\ [][NextThreads]_vars

----------------------------------------------------------------------------
(* SpecUnique: the main thread fills the store, then starts the threads,   *)
(* each of which calls push_unique once; one locked section per step.      *)
(* mhist keeps the store as it was when the threads were started.          *)

MaxUniqueSteps == 3

\* vec.iter().any(|d| Data::equals(d.clone(), b.clone()))
VecAny(vec, b) == \E n \in 1 .. Len(vec) : vec[n] = b

\* a last section of push_unique that pushes without looking again
PushUniqueBlind(s, ref, b) ==
    LET s1 == IF b.t = "DArray" THEN IncrTarget(s, b) ELSE s
    IN  IF ~HeapContainsKey(s.ah, ref)
        THEN [s |-> IF b.t \in {"DObject", "DBytes"} THEN DecrTarget(s, b) ELSE s,
              out |-> FALSE]
        ELSE [s |-> [s1 EXCEPT !.ah = HeapPut(@, ref, Append(HeapGet(@, ref), b))],
              out |-> TRUE]

\* push_unique, the last section under the Array heap guard: the array is
\* looked up again (a DObject or DBytes increment is rolled back when it is
\* gone), a DArray target is incremented here, and the value is pushed if
\* it is still absent, else the increment is rolled back
PushUniqueLocked(s, ref, b) ==
    LET s1 == IF b.t = "DArray" THEN IncrTarget(s, b) ELSE s
    IN  IF ~HeapContainsKey(s.ah, ref)
        THEN [s |-> IF b.t \in {"DObject", "DBytes"} THEN DecrTarget(s, b) ELSE s,
              out |-> FALSE]
        ELSE IF ~VecAny(HeapGet(s1.ah, ref), b)
        THEN [s |-> [s1 EXCEPT !.ah = HeapPut(@, ref, Append(HeapGet(@, ref), b))],
              out |-> TRUE]
        ELSE [s |-> DecrTarget(s1, b), out |-> FALSE]

UniqueReady == [pc |-> "ready", ref |-> 0, d |-> DNull, out |-> FALSE]

InitUnique == StoreInit /\ MutexIdle /\ limit = MaxUniqueSteps

\* the main thread's calls, before the threads exist
UniqueSetup ==
    /\ thr = <<>>
    /\ UNCHANGED mutexVars
    /\ \/ \E k \in Kinds : HostNew(k)
       \/ \E ref \in Slots, data \in HostValues : ArrPush(ref, data)

\* thread::spawn for each thread
UniqueSpawn ==
    /\ thr = <<>>
    /\ thr' = [t \in Threads |-> UniqueReady]
    /\ mhist' = [before |-> St]
    /\ UNCHANGED <<storeVars, mtx, cell>>

UniqueFrame(t, rec) ==
    /\ thr' = [thr EXCEPT ![t] = rec]
    /\ UNCHANGED <<held, ret, lastOp, steps, limit, mtx, cell, mhist>>

\* the calls on array ref that are past their first look
UniqueInFlight(ref) ==
    Cardinality({u \in Threads : thr[u].pc \in {"incr", "push"} /\ thr[u].ref = ref})

\* a.push_unique(b): the first look under the Array heap guard
UniqueCheck(t, ref, b) ==
    /\ thr # <<>>
    /\ thr[t].pc = "ready"
    /\ held["DArray"][ref] > 0
    /\ Len(HeapGet(aheap, ref)) + UniqueInFlight(ref) < MaxLen
    /\ Commit(St)
    /\ UniqueFrame(t, [pc |-> IF ~HeapContainsKey(aheap, ref) \/ VecAny(HeapGet(aheap, ref), b)
                              THEN "done"
                              ELSE IF b.t \in {"DObject", "DBytes"} THEN "incr" ELSE "push",
                       ref |-> ref, d |-> b, out |-> FALSE])

\* oheap().lock().incr(i) / bheap().lock().incr(i) of the DObject and DBytes arms
UniqueIncr(t) ==
    /\ thr # <<>>
    /\ thr[t].pc = "incr"
    /\ Commit(IncrTarget(St, thr[t].d))
    /\ UniqueFrame(t, [thr[t] EXCEPT !.pc = "push"])

\* the last section, and the return
UniquePush(t) ==
    /\ thr # <<>>
    /\ thr[t].pc = "push"
    /\ LET r == PushUniqueLocked(St, thr[t].ref, thr[t].d)
       IN  /\ Commit(r.s)
           /\ UniqueFrame(t, [thr[t] EXCEPT !.pc = "done", !.out = r.out])

NextUnique ==
    \/ UniqueSetup
    \/ UniqueSpawn
    \/ \E t \in Threads :
          \/ \E ref \in Slots, b \in HostValues : UniqueCheck(t, ref, b)
          \/ UniqueIncr(t)
          \/ UniquePush(t)

SpecUnique == InitUnique /\ [][NextUnique]_vars

----------------------------------------------------------------------------
(* SpecJson: object_from_string and array_from_string.  A document is the  *)
(* sequence of its tokens with the whitespace skipped: braces, brackets,   *)
(* comma, colon, a quoted key "a" or "b", the number 5, and "x" for a      *)
(* character that starts no value.  The parser is the recursive descent of *)
(* json_util.rs over the store: what it creates, increments, decrements    *)
(* and drops.                                                              *)

MaxJsonSteps == 4

Documents ==
    { <<"{", "}">>,
      <<"{", "}", "x">>,
      <<"{", "a", ":", "5", "}">>,
      <<"{", "a", ":", "5", ",", "}">>,
      <<"{", "a", ":", "5", "x">>,
      <<"{", "a", ":", "5", "}", "}">>,
      <<"{", "a", ":", "{", "}", "}">>,
      <<"{", "a", ":", "{", "}", "}", "x">>,
      <<"{", "a", ":", "[", "5", ",", "]", "}">>,
      <<"{", "a", ":", "[", "]", ",", "b", ":", "x">>,
      <<"{", "a", "5">>,
      <<"[", "]">>,
      <<"[", "]", "x">>,
      <<"[", "5", "]">>,
      <<"[", "5", ",", "]">>,
      <<"[", "{", "}", "]">>,
      <<"[", "{", "}", "]", "]">>,
      <<"[", "{", "a", ":", "5", ",", "}", "]">>,
      <<"[", "[", "]", "5">>,
      <<"[", "5">>,
      <<>> }

\* input.chars().next(), "" at the end of the input
Peek(in) == IF in = <<>> THEN "" ELSE Head(in)

\* Ok((value, remaining)) and Err(_) of the parse functions, with the store
\* they leave: i is the data_ref of a parsed container, d a parsed Data
ParseOk(s, in, i, d) == [s |-> s, in |-> in, ok |-> TRUE, i |-> i, d |-> d]
ParseErr(s) == [s |-> s, in |-> <<>>, ok |-> FALSE, i |-> 0, d |-> DNull]

\* "if val.is_object() { val.object().decr(); }" and the same for arrays:
\* Data::object() increments and returns a handle, decr() decrements, and the
\* handle goes out of scope
ReleaseParsed(s, d) ==
    IF d.t \in {"DObject", "DArray"}
    THEN DropHandle(DecrTarget(IncrTarget(s, d), d), d.t, d.v)
    ELSE s

\* "obj.decr(); return Err(..)": the decrement, then obj goes out of scope
ParseAbort(s, k, i) == DropHandle(DecrTarget(s, Handle(k, i)), k, i)

\* "?" on an Err inside parse_object / parse_array: obj goes out of scope
ParseQuit(s, k, i) == DropHandle(s, k, i)

\* '{' and '}' of parse_object, '[' and ']' of parse_array
OpenOf(k)  == IF k = "DObject" THEN "{" ELSE "["
CloseOf(k) == IF k = "DObject" THEN "}" ELSE "]"

RECURSIVE Parse(_, _, _, _, _, _)
\* the three mutually recursive functions of the parser, by name:
\*   fn = "value": parse_value.  A nested container is incremented and
\*        returned as Data, and the handle that parse_object / parse_array
\*        returned goes out of scope.
\*   fn = "open":  parse_object (k = "DObject") / parse_array (k = "DArray")
\*        up to its loop.
\*   fn = "loop":  the loop of parse_object / parse_array from its top, with
\*        the container c it fills and the flag first.
Parse(fn, k, s, in, c, first) ==
    IF fn = "value"
    THEN IF Peek(in) \in {"{", "["}
         THEN LET kk == IF Peek(in) = "{" THEN "DObject" ELSE "DArray"
                  r  == Parse("open", kk, s, in, 0, TRUE)
              IN  IF ~r.ok THEN r
                  ELSE ParseOk(DropHandle(IncrTarget(r.s, Handle(kk, r.i)), kk, r.i),
                               r.in, r.i, Handle(kk, r.i))
         ELSE IF Peek(in) = "5" THEN ParseOk(s, Tail(in), 0, DInt(5))
         ELSE ParseErr(s)
    ELSE IF fn = "open"
    THEN IF Peek(in) # OpenOf(k) THEN ParseErr(s)
         ELSE IF Peek(Tail(in)) = CloseOf(k)
         THEN ParseOk(StoreNew(s, k), Tail(Tail(in)), NewIndex(s, k), DNull)
         ELSE Parse("loop", k, StoreNew(s, k), Tail(in), NewIndex(s, k), TRUE)
    ELSE IF ~first /\ Peek(in) = CloseOf(k) THEN ParseErr(ParseAbort(s, k, c))
    ELSE IF ~first /\ Peek(in) # "," THEN ParseErr(ParseQuit(s, k, c))
    ELSE LET in1 == IF first THEN in ELSE Tail(in)
             \* parse_object: the quoted key and the colon
             keyed == k = "DObject"
             in2 == IF keyed THEN Tail(Tail(in1)) ELSE in1
         IN  IF Peek(in1) = CloseOf(k) THEN ParseErr(ParseAbort(s, k, c))
             ELSE IF keyed /\ Peek(in1) \notin Keys THEN ParseErr(ParseQuit(s, k, c))
             ELSE IF keyed /\ Peek(Tail(in1)) # ":" THEN ParseErr(ParseQuit(s, k, c))
             ELSE LET v  == Parse("value", k, s, in2, 0, TRUE)
                      s1 == IF keyed THEN ObjSetProperty(v.s, c, Head(in1), v.d)
                            ELSE ArrPushProperty(v.s, c, v.d)
                      s2 == ReleaseParsed(s1, v.d)
                  IN  IF ~v.ok THEN ParseErr(ParseQuit(v.s, k, c))
                      ELSE IF Peek(v.in) = CloseOf(k) THEN ParseOk(s2, Tail(v.in), c, DNull)
                      ELSE IF Peek(v.in) = "," THEN Parse("loop", k, s2, v.in, c, FALSE)
                      ELSE ParseErr(ParseAbort(s2, k, c))

ParseObject(s, in) == Parse("open", "DObject", s, in, 0, TRUE)
ParseArray(s, in) == Parse("open", "DArray", s, in, 0, TRUE)

\* object_from_string (k = "DObject") and array_from_string (k = "DArray")
FromString(s, k, doc) ==
    LET r == IF k = "DObject" THEN ParseObject(s, doc) ELSE ParseArray(s, doc)
    IN  IF doc = <<>> THEN ParseErr(s)
        ELSE IF ~r.ok THEN r
        ELSE IF r.in # <<>> THEN ParseErr(ParseAbort(r.s, k, r.i))
        ELSE r

\* the heaps and queues a parse leaves are within the bounds of the model
StoreFits(s) ==
    /\ Len(s.oh.data) <= MaxSlots /\ Len(s.ah.data) <= MaxSlots
    /\ Len(s.od) <= MaxQueue + 2 /\ Len(s.ad) <= MaxQueue + 2

ParseRec(ok) == [NoOp EXCEPT !.op = "from_string", !.quiet = ok]

InitJson ==
    /\ StoreInit /\ limit = MaxJsonSteps
    /\ mtx = <<>> /\ cell = <<>> /\ thr = <<>>
    /\ mhist = [failed |-> FALSE]

\* let r = object_from_string(doc) / array_from_string(doc)
JsonFromString(k, doc) ==
    /\ Called
    /\ LET r == FromString(St, k, doc)
       IN  /\ StoreFits(r.s)
           /\ r.ok => NumHeld < MaxHeld
           /\ Commit(r.s)
           /\ held' = IF r.ok THEN Acquire(k, r.i) ELSE held
           /\ ret' = IF r.ok THEN Handle(k, r.i) ELSE DNull
           /\ lastOp' = ParseRec(r.ok)
           /\ mhist' = [failed |-> mhist.failed \/ ~r.ok]
    /\ UNCHANGED <<mtx, cell, thr>>

NextJson ==
    \/ \E k \in {"DObject", "DArray"}, doc \in Documents : JsonFromString(k, doc)
    \/ /\ UNCHANGED mutexVars
       /\ \/ \E k \in Kinds : HostNew(k)
          \/ \E k \in Kinds, i \in Slots : HostDrop(k, i)
          \/ \E ord \in KeyOrders : Gc(ord)

SpecJson == InitJson /\ [][NextJson]_vars

----------------------------------------------------------------------------
(* SpecStale: a host that keeps handles to containers it has released with *)
(* decr(), and calls set_property and push_property through them.          *)

MaxStaleSteps == 4

StaleOps == {"o.set_property", "a.set_property", "a.push_property"}

\* the store a call through a handle to a missing container leaves
StaleStore(op, s, ref, key, id, data) ==
    IF op = "o.set_property" THEN ObjSetProperty(s, ref, key, data)
    ELSE IF op = "a.set_property" THEN ArrSetProperty(s, ref, id, data)
    ELSE ArrPushProperty(s, ref, data)

StaleRec(op, data) == [NoOp EXCEPT !.op = op, !.data = data]

InitStale == StoreInit /\ MutexIdle /\ limit = MaxStaleSteps

\* o.set_property(key, data) / a.set_property(id, data) / a.push_property(data)
\* through a handle whose container is not in its heap; the roll-back of a
\* DArray value in DataArray takes the Array heap lock it already holds and
\* never returns
StaleCall(op, ref, key, id, data) ==
    /\ Called
    /\ LET k == IF op = "o.set_property" THEN "DObject" ELSE "DArray"
       IN  held[k][ref] > 0 /\ ~HeapContainsKey(HeapOf(St, k), ref)
    /\ TargetLive(St, data)
    /\ Commit(StaleStore(op, St, ref, key, id, data))
    /\ ret' = IF op # "o.set_property" /\ data.t = "DArray" THEN Hang ELSE DNull
    /\ lastOp' = StaleRec(op, data)
    /\ UNCHANGED held

NextStale ==
    /\ UNCHANGED mutexVars
    /\ ret # Hang
    /\ \/ \E k \in Kinds : HostNew(k)
       \/ \E k \in Kinds, i \in Slots : HostDecr(k, i)
       \/ \E ref \in Slots, key \in Keys, data \in HostValues :
             HeapContainsKey(oheap, ref) /\ TargetLive(St, data) /\ ObjSet(ref, key, data)
       \/ \E ref \in Slots, data \in HostValues :
             HeapContainsKey(aheap, ref) /\ TargetLive(St, data) /\ ArrPush(ref, data)
       \/ \E op \in StaleOps, ref \in Slots, key \in Keys, id \in 0 .. (MaxLen - 1),
             data \in HostValues : StaleCall(op, ref, key, id, data)

SpecStale == InitStale /\ [][NextStale]_vars

----------------------------------------------------------------------------
(* Liveness of entries and reachability from the host's handles *)

AllHandles == {Handle(q[1], q[2]) : q \in Kinds \X Slots}

\* the entries whose index is live in their heap
LiveSet(s) == {d \in AllHandles : HeapContainsKey(HeapOf(s, d.t), d.v)}

\* the handle values a live container holds
Children(s, d) ==
    IF ~HeapContainsKey(HeapOf(s, d.t), d.v) THEN {}
    ELSE IF d.t = "DObject"
    THEN {c \in AllHandles : \E key \in Keys : HeapGet(s.oh, d.v)[key] = c}
    ELSE IF d.t = "DArray"
    THEN {c \in AllHandles : \E n \in 1 .. Len(HeapGet(s.ah, d.v)) : HeapGet(s.ah, d.v)[n] = c}
    ELSE {}

RECURSIVE ReachFrom(_, _)
ReachFrom(s, R) ==
    LET N == R \cup UNION {Children(s, d) : d \in R}
    IN  IF N = R THEN R ELSE ReachFrom(s, N)

HostRoots == {d \in AllHandles : held[d.t][d.v] > 0}

LiveNow == LiveSet(St)
ReachNow == ReachFrom(St, HostRoots)

\* the step is a gc() (which leaves every queue empty)
GcStep ==
    /\ odrop' = <<>> /\ adrop' = <<>> /\ bdrop' = <<>>
    /\ \E ord \in KeyOrders : Gc(ord)

----------------------------------------------------------------------------
(* C1 *)

\* C1: once a full gc() has run, the live set of each heap is exactly the
\* set of entries reachable from the handles the host holds.
C1_GcLeavesExactlyReachable ==
    [][GcStep => LiveNow' = ReachNow']_vars

----------------------------------------------------------------------------
(* C2 *)

\* Objects a and b hold each other, the host holds neither, and nothing else
\* refers to either
IsolatedCycle(a, b) ==
    /\ a # b
    /\ HeapContainsKey(oheap, a) /\ HeapContainsKey(oheap, b)
    /\ DObject(b) \in Children(St, DObject(a))
    /\ DObject(a) \in Children(St, DObject(b))
    /\ held["DObject"][a] = 0 /\ held["DObject"][b] = 0
    /\ NumRefs(St, DObject(a)) = 1 /\ NumRefs(St, DObject(b)) = 1

\* C2: when Object A holds B and B holds A, the host has dropped both
\* handles and nothing else refers to them, gc() leaves neither index live.
C2_CycleCollected ==
    [][\A a, b \in Slots :
          GcStep /\ IsolatedCycle(a, b)
          => ~HeapContainsKey(oheap', a) /\ ~HeapContainsKey(oheap', b)]_vars

----------------------------------------------------------------------------
(* C3 *)

\* the latest call took a nested Array or Bytes out of an Object key, by
\* remove_property or by overwriting the key with a scalar, while the key
\* held the only reference to it
TookOutSoleNested ==
    /\ lastOp.op \in {"o.remove_property", "o.set_property"}
    /\ lastOp.old.t \in {"DArray", "DBytes"}
    /\ ~IsHandle(lastOp.data)
    /\ lastOp.sole

\* C3: when an Object key holds the only reference to a nested Array or
\* Bytes, then after remove_property or overwriting the key with a scalar,
\* followed by gc(), the nested index is no longer live.
C3_TakenOutNestedFreed ==
    [][TookOutSoleNested /\ GcStep => lastOp.old \notin LiveNow']_vars

----------------------------------------------------------------------------
(* C4 *)

QueueOf(s, k) ==
    IF k = "DObject" THEN s.od ELSE IF k = "DArray" THEN s.ad ELSE s.bd

\* C4: dropping a live handle only appends its index to the pending queue
\* of its store: no heap changes (counts, contents, live indices), the
\* other queues do not change, and no entry stops being live in any step
\* that is not a gc().
C4_DropOnlyQueues ==
    [][/\ \A k \in Kinds, i \in Slots :
             HostDrop(k, i)
             => /\ oheap' = oheap /\ aheap' = aheap /\ bheap' = bheap
                /\ QueueOf(St', k) = Append(QueueOf(St, k), i)
                /\ \A k2 \in Kinds \ {k} : QueueOf(St', k2) = QueueOf(St, k2)
       /\ LiveNow \subseteq LiveNow' \/ GcStep]_vars

\* the host has dropped its only handle of an entry nothing else refers to:
\* the entry is still live, with its count, and its index is pending
C4_Witness ==
    \E d \in AllHandles :
        /\ held[d.t][d.v] = 0
        /\ d \in LiveNow
        /\ NumRefs(St, d) = 0
        /\ CountOf(St, d) = 1
        /\ QueueOf(St, d.t) = <<d.v>>

----------------------------------------------------------------------------
(* C5 *)

SetOps == {"o.set_property", "a.set_property"}

\* what a set_property step with the handle value data in place of old does
SetHandleEffect(data, old) ==
    /\ CountOf(St', data) = CountOf(St, data) + 1
    /\ \A k \in Kinds :
          QueueOf(St', k) = IF IsHandle(old) /\ old.t = k
                            THEN Append(QueueOf(St, k), old.v)
                            ELSE QueueOf(St, k)

\* (a set_property step leaves the host's handles and one of the two
\* container heaps as they are)
SetHandleStepOk ==
    /\ held' = held /\ aheap' = aheap
       => \A ref \in Slots, key \in Keys, data \in HostValues :
             IsHandle(data) /\ ObjSet(ref, key, data)
             => SetHandleEffect(data, HeapGet(oheap, ref)[key])
    /\ held' = held /\ oheap' = oheap
       => \A ref \in Slots, id \in 0 .. (MaxLen - 1), data \in HostValues :
             IsHandle(data) /\ ArrSet(ref, id, data)
             => SetHandleEffect(data, HeapGet(aheap, ref)[id + 1])

\* the latest call was a set_property that replaced a handle by a handle
ReplacedHandle == lastOp.op \in SetOps /\ IsHandle(lastOp.data)

----------------------------------------------------------------------------
(* C6 *)

\* the Data stored where the latest get_property looked
StoredAt(s, op) ==
    IF op.op = "o.get_property" THEN HeapGet(s.oh, op.ref)[op.key]
    ELSE HeapGet(s.ah, op.ref)[op.id + 1]

\* C6: a get_property that repeats the call before it returns the same
\* Data as that call, which is the stored Data, and changes no heap (so no
\* count) and no pending queue.
C6_GetTwiceSame ==
    [][lastOp'.twice
       => /\ ret' = ret
          /\ ret' = StoredAt(St, lastOp')
          /\ UNCHANGED <<oheap, aheap, bheap, odrop, adrop, bdrop>>]_vars

\* the same get_property ran twice in a row on a handle value
C6_Witness == lastOp.twice /\ IsHandle(ret)

----------------------------------------------------------------------------
(* C7 *)

\* the threads that hold a write guard / a read guard on the lock word at a
WriteHolders(a) ==
    {t \in Threads : thr[t].pc \in WriteGuardPcs /\ mtx[thr[t].m].lock_ptr = a}
ReadHolders(a) ==
    {t \in Threads : thr[t].pc \in ReadGuardPcs /\ mtx[thr[t].m].lock_ptr = a}

LocalCells == {a \in Mutexes : mtx[a].state = "Local"}

\* what the payloads have gained since they were set
Gained == SumOver([a \in Mutexes |-> IF a \in LocalCells
                                      THEN cell.data[a][1] - mhist.initial[a] ELSE 0],
                  Mutexes)

Increments == SumOver([t \in Threads |-> thr[t].done], Threads)

\* C7: at most one write guard is outstanding on a lock word, the word is
\* UNLOCKED whenever no guard is outstanding, and no increment made under
\* lock() is lost: when each of the N threads has made its K increments the
\* payloads have gained exactly N*K.
C7_LockMutualExclusion ==
    /\ \A a \in Mutexes :
          /\ Cardinality(WriteHolders(a)) <= 1
          /\ cell.lock[a] = IF WriteHolders(a) # {} THEN WRITE_LOCKED ELSE UNLOCKED
    /\ Gained = Increments
    /\ (\A t \in Threads : thr[t].done = MaxIncr) => Gained = NumThreads * MaxIncr

\* every thread has made its K increments on one payload and the lock is free
C7_Witness ==
    \E a \in Mutexes :
        /\ mtx[a].state = "Local"
        /\ \A t \in Threads : thr[t].done = MaxIncr /\ thr[t].pc = "idle"
        /\ cell.data[a] = Some(mhist.initial[a] + NumThreads * MaxIncr)
        /\ cell.lock[a] = UNLOCKED

----------------------------------------------------------------------------
(* C8 *)

\* C8: on one lock word a write guard and a read guard are never
\* outstanding together (so read() has not returned while a write guard is
\* held and lock() has not returned while a read guard is held); the word
\* is WRITE_LOCKED under a write guard and counts the read guards otherwise.
C8_ReadersXorWriter ==
    \A a \in Mutexes :
        /\ Cardinality(WriteHolders(a)) <= 1
        /\ WriteHolders(a) = {} \/ ReadHolders(a) = {}
        /\ cell.lock[a] = IF WriteHolders(a) # {} THEN WRITE_LOCKED
                          ELSE Cardinality(ReadHolders(a))

\* two read guards are outstanding on one lock word
C8_Witness ==
    \E a \in Mutexes : Cardinality(ReadHolders(a)) >= 2

----------------------------------------------------------------------------
(* C9 *)

\* the threads that hold a write guard taken through instance m
GuardsThrough(m) == {t \in Threads : thr[t].pc \in WriteGuardPcs /\ thr[t].m = m}

\* C9: a mirror m of a Local instance o has o's lock word and o's payload;
\* a guard through one of them excludes a guard through the other, and what
\* a guard of either reads is o's payload with every increment made through
\* either of them.
C9_MirrorIsSameMutex ==
    \A m \in Mutexes :
        mtx[m].state = "Mirrored"
        => LET o == mtx[m].data_ptr
           IN  /\ mtx[o].state = "Local"
               /\ mtx[m].lock_ptr = mtx[o].lock_ptr
               /\ mtx[m].data_ptr = mtx[o].data_ptr
               /\ Cardinality(GuardsThrough(m) \cup GuardsThrough(o)) <= 1
               /\ \A t \in GuardsThrough(m) \cup GuardsThrough(o) :
                     thr[t].pc = "w_store"
                     => /\ thr[t].tmp = cell.data[o][1]
                        /\ thr[t].tmp = mhist.initial[o] + Increments

\* a guard through the mirror has read the payload with an increment that
\* was written through the Local instance, while another thread waits in
\* lock() on the Local instance
C9_Witness ==
    \E m \in Mutexes, t \in Threads, u \in Threads :
        /\ mtx[m].state = "Mirrored"
        /\ thr[t].m = m /\ thr[t].pc = "w_store"
        /\ mhist.via = mtx[m].data_ptr
        /\ thr[t].tmp = mhist.initial[mtx[m].data_ptr] + 1
        /\ thr[u].pc = "lock" /\ thr[u].m = mtx[m].data_ptr

----------------------------------------------------------------------------
(* C10 *)

Panicked == mhist'.call.panicked

\* a set or mirror call on an instance that has left Uninitialized fails
\* and leaves every state, lock word and payload as it was
LaterCallFails(m) ==
    mtx[m].state # "Uninitialized" => Panicked /\ mtx' = mtx /\ cell' = cell

SetOnceOk(m) ==
    /\ mtx[m].state # "Uninitialized" => mtx'[m].state = mtx[m].state
    /\ \A t \in SetValues :
          MainSet(m, t)
          => /\ LaterCallFails(m)
             /\ mtx[m].state = "Uninitialized"
                => ~Panicked /\ mtx'[m].state = "Local" /\ cell'.data[m] = Some(t)
    /\ \A src \in Mutexes :
          MainMirror(m, src)
          => /\ LaterCallFails(m)
             /\ mtx[m].state = "Uninitialized"
                => /\ ~Panicked /\ mtx'[m].state = "Mirrored"
                   /\ mtx'[m].lock_ptr = mtx[src].lock_ptr
                   /\ mtx'[m].data_ptr = mtx[src].data_ptr

\* C10 as stated: an instance leaves Uninitialized once; the first set
\* makes it Local, the first mirror makes it Mirrored, whatever addresses it
\* is given, and any later set or mirror fails and changes nothing.
C10_AsStated ==
    [][\A m \in Mutexes :
          /\ SetOnceOk(m)
          /\ MainMirrorNull(m)
             => /\ LaterCallFails(m)
                /\ mtx[m].state = "Uninitialized" => mtx'[m].state = "Mirrored"]_vars

\* C10 amended: an instance leaves Uninitialized once; the first set makes
\* it Local, the first mirror with non-null addresses makes it Mirrored, a
\* mirror with a null address fails and leaves an Uninitialized instance
\* Uninitialized, and any later set or mirror fails and changes nothing.
C10_Amended ==
    [][\A m \in Mutexes :
          /\ SetOnceOk(m)
          /\ MainMirrorNull(m) => Panicked /\ mtx' = mtx /\ cell' = cell]_vars

\* a second set has just failed on a Local instance whose lock word is held
\* through its mirror
C10_Witness ==
    \E m \in Mutexes :
        /\ mhist.call = [op |-> "set", m |-> m, panicked |-> TRUE]
        /\ mtx[m].state = "Local"
        /\ cell.lock[m] = WRITE_LOCKED

----------------------------------------------------------------------------
(* C11 *)

\* a call that failed left every instance, lock word, payload and guard alone
FailedCallInert == mtx' = mtx /\ cell' = cell /\ thr' = thr

\* C11: share() succeeds only on a Local instance and fails on an
\* Uninitialized or Mirrored one; lock() and read() fail on an Uninitialized
\* one; a failed call changes no mutex state and takes no lock.
C11_FailedCallsInert ==
    [][\A m \in Mutexes :
          /\ MainShare(m)
             => /\ Panicked <=> mtx[m].state \in {"Uninitialized", "Mirrored"}
                /\ Panicked => FailedCallInert /\ mhist'.shared = mhist.shared
                /\ ~Panicked => /\ mtx[m].state = "Local"
                                /\ mhist'.shared = <<mtx[m].lock_ptr, mtx[m].data_ptr>>
          /\ \A t \in Threads :
                /\ ~IsInitialized(m) /\ mhist'.call.m = m /\ mhist'.call.op \in {"lock", "read"}
                   => Panicked /\ FailedCallInert
                /\ ~IsInitialized(m) => ~StartLock(t, m) /\ ~StartRead(t, m)]_vars

\* share() has just failed on a Mirrored instance while a guard taken
\* through it is outstanding
C11_Witness ==
    \E m \in Mutexes :
        /\ mhist.call = [op |-> "share", m |-> m, panicked |-> TRUE]
        /\ mtx[m].state = "Mirrored"
        /\ \E t \in Threads : thr[t].m = m /\ thr[t].pc \in WriteGuardPcs \cup ReadGuardPcs

----------------------------------------------------------------------------
(* C12 *)

\* the order Object, Array, Bytes of the heap locks
HeapLockRank(l) == CASE l = "OH" -> 1 [] l = "AH" -> 2 [] l = "BH" -> 3 [] OTHER -> 0

\* C12: a thread that takes a heap lock while it holds another heap lock
\* holds the one that comes earlier in the order Object, Array, Bytes.
C12_HeapLockOrder ==
    \A t \in Threads :
       \A i, j \in 1 .. Len(thr[t].held) :
          i < j /\ HeapLockRank(thr[t].held[i]) > 0 /\ HeapLockRank(thr[t].held[j]) > 0
          => HeapLockRank(thr[t].held[i]) < HeapLockRank(thr[t].held[j])

----------------------------------------------------------------------------
(* C13 *)

\* thread t is at a lock() whose lock word is taken
WaitsAt(t) ==
    IF thr[t].pc = "run" /\ Head(thr[t].todo)[1] = "lock"
          /\ ~CanLock(cell.lock[Head(thr[t].todo)[2]])
    THEN Head(thr[t].todo)[2] ELSE ""

\* C13: no set of threads is reached in which every thread waits at a lock
\* held by a thread of the set (itself included), so that none of their
\* calls can ever complete.
C13_NoThreadWaitsForever ==
    \A B \in SUBSET Threads :
       B # {} =>
          ~ \A t \in B :
               /\ WaitsAt(t) # ""
               /\ \E u \in B : \E i \in 1 .. Len(thr[u].held) : thr[u].held[i] = WaitsAt(t)

----------------------------------------------------------------------------
(* C14 *)

\* C14: decr on a live entry with count 1 removes it (contains_key becomes
\* false and the next push reuses its index) and with count n > 1 leaves it
\* live with count n - 1 and the same payload; no other entry changes.
C14_DecrRemovesAtOne ==
    [][\A index \in ArenaSlots :
          HeapDecrOp(index) /\ HeapContainsKey(oheap, index)
          => /\ ret' = DNull
             /\ HeapCount(oheap, index) = 1
                => /\ ~HeapContainsKey(oheap', index)
                   /\ UMNextIndex(oheap') = index
             /\ HeapCount(oheap, index) > 1
                => /\ HeapContainsKey(oheap', index)
                   /\ HeapCount(oheap', index) = HeapCount(oheap, index) - 1
                   /\ HeapGet(oheap', index) = HeapGet(oheap, index)
             /\ \A other \in ArenaSlots \ {index} :
                   /\ HeapContainsKey(oheap', other) <=> HeapContainsKey(oheap, other)
                   /\ HeapContainsKey(oheap, other)
                      => UMGet(oheap', other) = UMGet(oheap, other)]_vars

\* a decr has removed an entry, whose slot is now free, beside a live entry
\* with count 1
C14_Witness ==
    \E index, other \in ArenaSlots :
        /\ HeapContainsKey(oheap, index) /\ HeapCount(oheap, index) = 1
        /\ other < Len(oheap.data) /\ ~HeapContainsKey(oheap, other)
        /\ oheap.empty # <<>> /\ ret = DNull

----------------------------------------------------------------------------
(* C15 *)

\* C15: every entry present in the arena of a Heap has count >= 1.
C15_LiveCountPositive ==
    \A index \in HeapKeys(oheap) : HeapCount(oheap, index) >= 1

\* two live entries, one of them shared, after an entry was removed
C15_Witness ==
    /\ \E index \in HeapKeys(oheap) : HeapCount(oheap, index) = MaxCount
    /\ \E index \in HeapKeys(oheap) : HeapCount(oheap, index) = 1
    /\ oheap.empty # <<>>

----------------------------------------------------------------------------
(* C16 *)

\* C16: every index in the free list addresses an empty slot, no index is
\* in the free list twice, every empty slot below the entries length is in
\* the free list, and len() is the number of occupied slots.
C16_ArenaConsistent ==
    LET m == oheap
        inFree == {m.empty[n] : n \in 1 .. Len(m.empty)}
    IN  /\ \A i \in inFree : i < Len(m.data) /\ m.data[i + 1] = None
        /\ \A a, b \in 1 .. Len(m.empty) : a # b => m.empty[a] # m.empty[b]
        /\ \A i \in 0 .. (Len(m.data) - 1) : m.data[i + 1] = None => i \in inFree
        /\ UMLen(m) = Cardinality({i \in 0 .. (Len(m.data) - 1) : m.data[i + 1] # None})

\* two freed slots and one occupied slot
C16_Witness ==
    /\ Len(oheap.empty) = 2
    /\ UMLen(oheap) = 1
    /\ Len(oheap.data) = 3

----------------------------------------------------------------------------
(* C18 *)

\* C18: insert returns the most recently removed index when the free list
\* is not empty and the entries length otherwise, never a live index; the
\* element is stored there and every other entry is unchanged; the first
\* insert into a fresh or cleared arena returns 0.
C18_InsertIndex ==
    [][\A element \in ArenaValues :
          ArenaInsert(element)
          => /\ ret'.t = "usize"
             /\ oheap.empty # <<>> => ret'.v = oheap.empty[Len(oheap.empty)]
             /\ oheap.empty = <<>> => ret'.v = Len(oheap.data)
             /\ oheap = UMNew \/ oheap = UMClear(oheap) => ret'.v = 0
             /\ ~UMContainsKey(oheap, ret'.v)
             /\ UMContainsKey(oheap', ret'.v) /\ UMGet(oheap', ret'.v) = element
             /\ UMLen(oheap') = UMLen(oheap) + 1
             /\ \A other \in ArenaSlots \ {ret'.v} :
                   /\ UMContainsKey(oheap', other) <=> UMContainsKey(oheap, other)
                   /\ UMContainsKey(oheap, other)
                      => UMGet(oheap', other) = UMGet(oheap, other)]_vars

\* insert has just returned a reused index below another live entry while
\* an older freed index is still waiting
C18_Witness ==
    /\ ret.t = "usize"
    /\ ret.v + 1 < Len(oheap.data)
    /\ UMContainsKey(oheap, ret.v) /\ UMContainsKey(oheap, ret.v + 1)
    /\ oheap.empty # <<>>

----------------------------------------------------------------------------
(* C19 *)

\* C19: remove of an empty or out-of-range index returns none and leaves
\* entries, free list and len() unchanged, so an index removed twice is in
\* the free list once.
C19_RemoveEmptyInert ==
    [][\A key \in ArenaSlots :
          ArenaRemove(key) /\ ~UMContainsKey(oheap, key)
          => /\ ret' = Absent
             /\ oheap'.data = oheap.data
             /\ oheap'.empty = oheap.empty
             /\ UMLen(oheap') = UMLen(oheap)]_vars

\* a remove has just returned none while an earlier remove's index is in the
\* free list and an entry is live
C19_Witness ==
    /\ ret = Absent
    /\ oheap.empty # <<>>
    /\ UMLen(oheap) > 0

----------------------------------------------------------------------------
(* C17 *)

\* index i has been emptied by remove and not been returned by insert since
Freed(i) == i < Len(oheap.data) /\ oheap.data[i + 1] = None

\* C17 as stated: while inserts keep being performed, every index freed by
\* remove is eventually returned again by an insert.
C17_AsStated == \A i \in ArenaSlots : Freed(i) ~> ~Freed(i)

\* C17 amended: insert returns the index freed last, so a freed index is
\* returned again once every index freed after it has been returned; this
\* happens in every continuation that keeps performing inserts and at some
\* point stops removing.
C17_Amended ==
    <>[][\A key \in ArenaSlots : ~ArenaRemove(key)]_vars
       => \A i \in ArenaSlots : Freed(i) ~> ~Freed(i)

\* insert has just returned a freed index that lay below a later freed one
C17_Witness ==
    /\ ret.t = "usize"
    /\ UMContainsKey(oheap, ret.v)
    /\ oheap.empty = <<>>
    /\ ret.v + 1 < Len(oheap.data)
    /\ UMLen(oheap) = Len(oheap.data)

\* C20: on the typed-result surface the error class follows the failing
\* condition for Object, Array and Bytes alike: a handle whose container is
\* no longer in its heap gives the invalid-handle class, a missing key on a
\* live Object gives KeyNotFound, an index >= len on a live Array gives
\* IndexOutOfBounds with that index and the actual length; no such call
\* aborts or changes a heap.
InvalidHandleClass == {"InvalidObjectRef", "InvalidArrayRef", "InvalidBytesRef"}

C20_ErrorClassByCondition ==
    [][\A k \in Kinds, ref \in Slots, key \in Keys, index \in 0 .. MaxLen :
          TryGet(k, ref, key, index) =>
             /\ ret'.t # "Panic"
             /\ oheap' = oheap /\ aheap' = aheap /\ bheap' = bheap
             /\ ~HeapContainsKey(HeapOf(St, k), ref)
                   => ret'.t \in InvalidHandleClass
             /\ (k = "DObject" /\ HeapContainsKey(oheap, ref)
                    /\ HeapGet(oheap, ref)[key] = Absent)
                   => (ret'.t = "KeyNotFound" /\ ret'.v = key)
             /\ (k = "DArray" /\ HeapContainsKey(aheap, ref)
                    /\ index >= Len(HeapGet(aheap, ref)))
                   => (ret'.t = "IndexOutOfBounds"
                       /\ ret'.v = <<index, Len(HeapGet(aheap, ref))>>)]_vars

\* C21: DataArray get_property, set_property, remove_property and
\* pop_property called with index >= len panic at once for every kind of
\* value passed, release the Array store's lock, and leave every heap's
\* contents and reference counts as they were.
OutOfRange(ref, id) == id >= Len(HeapGet(aheap, ref))

FatalAndInert ==
    /\ ret'.t = "Panic"
    /\ cell'.lock["AH"] = UNLOCKED
    /\ oheap' = oheap /\ aheap' = aheap /\ bheap' = bheap

C21_OutOfRangePanicsInert ==
    [][\A ref \in Slots, id \in 0 .. MaxLen :
          /\ (ArrGetCall(ref, id) /\ OutOfRange(ref, id)) => FatalAndInert
          /\ (ArrRemoveCall(ref, id) /\ OutOfRange(ref, id)) => FatalAndInert
          /\ (ArrPopCall(ref, id) /\ OutOfRange(ref, id)) => FatalAndInert
          /\ \A data \in HostValues :
                (ArrSetCall(ref, id, data) /\ OutOfRange(ref, id)) => FatalAndInert]_vars

\* C22: a write on a Bytes stream appends the given bytes to the end of the
\* buffer whenever the stream is write-open, and appends nothing once the
\* write end is closed (by close_write, set_data or from_bytes).
C22_WriteAppendsWhileOpen ==
    [][\A ref \in Slots, buf \in Bufs :
          (BytesWrite(ref, buf) \/ BytesTryWrite(ref, buf)) =>
             HeapGet(bheap', ref).data =
                IF HeapGet(bheap, ref).write_open
                THEN HeapGet(bheap, ref).data \o buf
                ELSE HeapGet(bheap, ref).data]_vars

\* C23: read(n) on a read-open stream removes and returns the first
\* min(n, length) bytes in the order they were written and leaves the rest
\* in place; the reads of a stream, concatenated, are a prefix of the bytes
\* it was given, concatenated; a read that leaves no bytes behind on a
\* write-closed stream closes the read end.
IsPrefix(a, b) == Len(a) <= Len(b) /\ SubSeq(b, 1, Len(a)) = a

ReadTakesFront ==
    \A ref \in Slots, n \in 0 .. MaxBuf, try \in BOOLEAN :
       (BytesRead(ref, n, try) /\ HeapGet(bheap, ref).read_open) =>
          LET before == HeapGet(bheap, ref)
              after == HeapGet(bheap', ref)
              k == Min(n, Len(before.data))
          IN  /\ ret'.t = "Ok"
              /\ ret'.v = SubSeq(before.data, 1, k)
              /\ after.data = SubSeq(before.data, k + 1, Len(before.data))
              /\ (~after.write_open /\ after.data = <<>>) => ~after.read_open

\* as stated: all reads against all bytes ever given
C23_AsStated ==
    [][/\ ReadTakesFront
       /\ \A i \in Slots : IsPrefix(mhist'[i].got, mhist'[i].given)]_vars

\* amended: the reads since the latest set_data against the bytes given
\* since then, which are those reads followed by the buffer
C23_Amended ==
    [][/\ ReadTakesFront
       /\ \A i \in Slots :
             /\ IsPrefix(mhist'[i].sgot, mhist'[i].sgiven)
             /\ HeapContainsKey(bheap', i) =>
                   mhist'[i].sgiven = mhist'[i].sgot \o HeapGet(bheap', i).data]_vars

\* a read handed out the first byte and left a different byte behind
C23_Witness ==
    /\ lastOp.op \in {"read", "try_read"}
    /\ ret.t = "Ok" /\ ret.v # <<>>
    /\ HeapGet(bheap, lastOp.ref).data # <<>>
    /\ HeapGet(bheap, lastOp.ref).data[1] # ret.v[1]
    /\ mhist[lastOp.ref].sgiven = ret.v \o HeapGet(bheap, lastOp.ref).data

\* C24: shallow_copy of an Object or Array creates a new entry with count 1
\* whose entries equal the source's (scalars equal, handles the same
\* indices), raises each target's count by one per copied reference, and
\* leaves the source entry's contents and count unchanged.
HandleValues == {Handle(q[1], q[2]) : q \in Kinds \X Slots}

\* how many entries of container (k, ref) hold the value d
RefsIn(s, k, ref, d) ==
    Cardinality({place \in Places(s) :
                    place[1] = k /\ place[2] = ref /\ Refers(s, place, d)})

ShallowCopied(k, ref) ==
    LET new == NewIndex(St, k)
    IN  /\ ~HeapContainsKey(HeapOf(St, k), new)
        /\ HeapCount(HeapOf(St', k), new) = 1
        /\ HeapGet(HeapOf(St', k), new) = HeapGet(HeapOf(St, k), ref)
        /\ HeapGet(HeapOf(St', k), ref) = HeapGet(HeapOf(St, k), ref)
        /\ \A d \in HandleValues :
              (d # Handle(k, new) /\ d # Handle(k, ref)) =>
                 CountOf(St', d) = CountOf(St, d) + RefsIn(St, k, ref, d)

\* as stated: the source's count never changes
C24_AsStated ==
    [][\A k \in Containers, ref \in Slots, ord \in KeyOrders :
          HostShallowCopy(k, ref, ord) =>
             /\ ShallowCopied(k, ref)
             /\ CountOf(St', Handle(k, ref)) = CountOf(St, Handle(k, ref))]_vars

\* amended: the source is a target too when it holds handles to itself
C24_Amended ==
    [][\A k \in Containers, ref \in Slots, ord \in KeyOrders :
          HostShallowCopy(k, ref, ord) =>
             /\ ShallowCopied(k, ref)
             /\ CountOf(St', Handle(k, ref)) =
                   CountOf(St, Handle(k, ref)) + RefsIn(St, k, ref, Handle(k, ref))]_vars

\* a copy shares a nested container of another kind with its source
C24_Witness ==
    /\ lastOp.op = "shallow_copy"
    /\ \E d \in HandleValues :
          /\ d.t # lastOp.kind
          /\ RefsIn(St, lastOp.kind, lastOp.new, d) = 1
          /\ RefsIn(St, lastOp.kind, lastOp.ref, d) = 1
          /\ CountOf(St, d) >= 2

\* the entries of the graph under root in store s, and whether one of them
\* reaches itself
GraphOf(s, root) == ReachFrom(s, {root})
HasCycle(s, root) ==
    \E n \in GraphOf(s, root) : n \in ReachFrom(s, Children(s, n))

CopySource == Handle(lastOp.kind, lastOp.ref)
CopyRunning == lastOp.op = "deep_copy" /\ ~lastOp.done /\ thr # <<>>
CopyAcyclic == lastOp.op = "deep_copy" /\ ~HasCycle(lastOp.before, CopySource)

\* the running copy needs an entry beyond the heap size explored
AtSlotBound ==
    /\ thr # <<>>
    /\ thr[Len(thr)].items # <<>>
    /\ IsHandle(Head(thr[Len(thr)].items)[2])
    /\ NewIndex(St, Head(thr[Len(thr)].items)[2].t) >= MaxSlots

\* the contents of a live entry
ContentsOf(s, d) == HeapGet(HeapOf(s, d.t), d.v)

\* the call ends: nothing under the new root was live before the call
CopyIsFresh ==
    (DeepEnd /\ CopyAcyclic) =>
        /\ GraphOf(St', ret') \cap LiveSet(lastOp.before) = {}
        /\ GraphOf(St', ret') \cap GraphOf(St', CopySource) = {}

\* C25: deep_copy of an acyclic Object/Array graph terminates and returns a
\* new root from which no index of the source graph is reachable (every
\* nested Object, Array and Bytes is a fresh entry), and after the next
\* gc() every source entry is still live with the same reference count and
\* contents as before the copy.
C25_AsStated ==
    /\ (CopyRunning /\ CopyAcyclic) ~> (thr = <<>> \/ AtSlotBound)
    /\ [][/\ CopyIsFresh
          /\ \A ord \in KeyOrders :
                (Gc(ord) /\ lastOp.op = "deep_copy" /\ lastOp.done /\ CopyAcyclic) =>
                   \A d \in GraphOf(lastOp.before, CopySource) :
                      /\ HeapContainsKey(HeapOf(St', d.t), d.v)
                      /\ CountOf(St', d) = CountOf(lastOp.before, d)
                      /\ ContentsOf(St', d) = ContentsOf(lastOp.before, d)]_vars

\* amended: the count gc() leaves is the one it would have left without the
\* copy (the count before the copy less the decrements then pending)
C25_Amended ==
    /\ (CopyRunning /\ CopyAcyclic) ~> (thr = <<>> \/ AtSlotBound)
    /\ [][/\ CopyIsFresh
          /\ \A ord \in KeyOrders :
                (Gc(ord) /\ lastOp.op = "deep_copy" /\ lastOp.done /\ CopyAcyclic) =>
                   \A d \in GraphOf(lastOp.before, CopySource) :
                      /\ HeapContainsKey(HeapOf(St', d.t), d.v)
                      /\ CountOf(St', d) = CountOf(NdataGc(lastOp.before, ord), d)
                      /\ (lastOp.before.od = <<>> /\ lastOp.before.ad = <<>>
                             /\ lastOp.before.bd = <<>>)
                            => CountOf(St', d) = CountOf(lastOp.before, d)
                      /\ ContentsOf(St', d) = ContentsOf(lastOp.before, d)]_vars

\* the copy of a nested acyclic graph has returned a root over fresh
\* entries; the decrements it queued await the next gc()
C25_Witness ==
    /\ lastOp.op = "deep_copy" /\ lastOp.done /\ CopyAcyclic
    /\ thr = <<>> /\ ret = Handle(lastOp.kind, lastOp.new)
    /\ Cardinality(GraphOf(lastOp.before, CopySource)) >= 2
    /\ Cardinality(GraphOf(St, ret)) >= 2
    /\ GraphOf(St, ret) \cap GraphOf(St, CopySource) = {}
    /\ Len(odrop) + Len(adrop) + Len(bdrop) >= 2

----------------------------------------------------------------------------
(* C27 *)

GcRunning == thr # <<>> /\ lastOp.op = "gc"

\* the delete call gc() makes next, as a handle value
NextDelete == Handle(Head(thr.todo).kind, Head(thr.todo).data_ref)

\* the step is one delete call of a running gc()
DeleteStep == GcRunning /\ thr.todo # <<>> /\ thr' # <<>>

\* the delete returns at once: nothing changes and it makes no call
DeleteReturns == St' = St /\ thr'.todo = Tail(thr.todo)

\* the delete lowers the count of its entry (removing it from count 1), and
\* makes calls only after removing an entry whose count was 1
DeleteLowers ==
    /\ TargetLive(St, NextDelete)
    /\ CountOf(St', NextDelete) = CountOf(St, NextDelete) - 1
    /\ Len(thr'.todo) >= Len(thr.todo)
         => CountOf(St, NextDelete) = 1 /\ ~TargetLive(St', NextDelete)
    /\ CountOf(St, NextDelete) > 1 => thr'.todo = Tail(thr.todo)

\* C27: every gc() that is called returns, whatever the heaps and the
\* pending queues hold (cycles and self-references included); each delete
\* call it makes either returns at once or lowers the count of its entry,
\* and it calls delete on the children only from an entry whose count was 1,
\* after taking that entry out of the heap.
C27_GcTerminates ==
    /\ GcRunning ~> thr = <<>>
    /\ [][DeleteStep => DeleteReturns \/ DeleteLowers]_vars

\* gc() descended from an entry that was on a cycle and came back to it: the
\* next delete is for an entry the same gc() already removed
C27_Witness ==
    /\ GcRunning /\ thr.todo # <<>>
    /\ TargetLive(lastOp.before, NextDelete)
    /\ HasCycle(lastOp.before, NextDelete)
    /\ ~TargetLive(St, NextDelete)

----------------------------------------------------------------------------
(* C28 *)

\* the step is a call of init() for stores that each returned a pair before
InitAgain == steps' # steps /\ lastOp'.op = "init" /\ lastOp'.again

\* the pairs the first calls returned for the stores of the call
FirstBundle(kinds) == [n \in 1 .. Len(kinds) |-> mhist[kinds[n]]]

\* C28: a call of init() for stores that an earlier init() initialized
\* changes no static, no heap entry, no reference count and no pending
\* queue, and returns the addresses the first call returned.
C28_InitAgainIsNoOp ==
    [][InitAgain => /\ St' = St
                    /\ mtx' = mtx /\ cell' = cell
                    /\ ret' = Bundle(FirstBundle(lastOp'.kinds))]_vars

\* init() was called again while an entry with a reference count above 1 and
\* a pending decrement existed, and returned all three pairs
C28_Witness ==
    /\ lastOp.op = "init" /\ lastOp.again /\ Len(lastOp.kinds) = 3
    /\ ret.t = "Bundle"
    /\ \E i \in HeapKeys(oheap) : HeapCount(oheap, i) > 1
    /\ odrop # <<>>

----------------------------------------------------------------------------
(* C29, C30 *)

\* the boxed SharedMutex was set exactly once, with the payload of one call
SetOnce ==
    /\ mhist.sets <= 1
    /\ mtx[0].state = GLOBAL_INITIALIZED
         => /\ mhist.sets = 1
            /\ mtx[0].ptr = 1 /\ mtx[1].state = "Local"
            /\ Payload(1) = mhist.val

\* an init call other than the one that set the payload has ended without a
\* panic
InitReturnedQuietly(t) ==
    /\ thr[t].out.op = "init"
    /\ thr[t].out.res = "returned"
    /\ ~thr[t].out.won

\* C29: under every interleaving of init calls the SharedMutex is set exactly
\* once, with the payload of one of the calls, and every init call other
\* than that one ends in a panic.
C29_InitOnceOthersPanic ==
    /\ SetOnce
    /\ \A t \in Threads : ~InitReturnedQuietly(t)

\* what holds of init: one set, and a call that did not set returns only
\* after the state is GLOBAL_INITIALIZED
C29_SetOnce ==
    /\ SetOnce
    /\ \A t \in Threads : InitReturnedQuietly(t) => mtx[0].state = GLOBAL_INITIALIZED

Accesses == {"read", "lock"}

\* an access ended while another thread was inside init(), without a value
AccessFailedDuringInit(t) ==
    /\ thr[t].out.op \in Accesses
    /\ thr[t].out.during
    /\ thr[t].out.res # "value"

AccessAdmitted(t) ==
    thr[t].op \in Accesses /\ thr[t].pc \in {"wait", "ptr", "acquire", "use"}

AccessGotValue(t) ==
    /\ thr[t].out.op \in Accesses
    /\ thr[t].out.res = "value"
    /\ thr[t].out.v = mhist.val

\* no access has taken the pointer before it was published, holds the
\* lock of anything but the SharedMutex that was set, or ended with a value
\* other than the payload
AccessSound ==
    \A t \in Threads :
        /\ thr[t].out.res # "null"
        /\ thr[t].pc \in {"acquire", "use"}
             => mtx[0].ptr = 1 /\ mtx[1].state = "Local" /\ Payload(1) = mhist.val
        /\ thr[t].out.op \in Accesses /\ thr[t].out.res = "value"
             => thr[t].out.v = mhist.val

\* a step of an access that found the initialisation begun is no failure
AdmittedNeverFails ==
    \A t \in Threads :
        AccessAdmitted(t) => thr'[t].out.res \notin {"panicked", "null"}

AdmittedGetsValue == \A t \in Threads : AccessAdmitted(t) ~> AccessGotValue(t)

----------------------------------------------------------------------------
(* C31 *)

\* how many times index d.v is in the pending queue of d's store
Queued(s, d) ==
    LET q == IF d.t = "DObject" THEN s.od ELSE IF d.t = "DArray" THEN s.ad ELSE s.bd
    IN  Cardinality({n \in 1 .. Len(q) : q[n] = d.v})

\* a live handle or a slot of a live container names the entry
Referenced(d) == held[d.t][d.v] > 0 \/ NumRefs(St, d) > 0

\* C31: under every interleaving of the threads' new, clone, get_object,
\* set_property, push_property, remove_property, handle drops and gc, an
\* index that a live handle holds or a slot of a live container stores is
\* live, and its count is at least the live handles to it plus the slots
\* holding it plus the decrements queued for it.
C31_CountCoversReferences ==
    \A d \in HandleValues :
        Referenced(d) =>
            /\ TargetLive(St, d)
            /\ CountOf(St, d) >= held[d.t][d.v] + NumRefs(St, d) + Queued(St, d)

\* a thread is between the two sections of a call while another thread is
\* inside gc(), and an entry named by a handle and by a slot has exactly the
\* count that covers them and its queued decrements
C31_Witness ==
    /\ \E t \in Threads : thr[t].pc \in {"push", "drop_old", "get"}
    /\ \E t \in Threads : thr[t].pc \in {"gc_arrays", "gc_bytes"}
    /\ \E d \in HandleValues :
          /\ held[d.t][d.v] > 0 /\ NumRefs(St, d) > 0
          /\ CountOf(St, d) = held[d.t][d.v] + NumRefs(St, d) + Queued(St, d)

----------------------------------------------------------------------------
(* C32 *)

BytesValues == {Handle("DBytes", i) : i \in Slots}

\* the step on which a running gc() returns
GcReturns == GcRunning /\ thr' = <<>>

\* the slots holding d that were in containers the gc() freed
SlotsFreed(d) == NumRefs(lastOp.before, d) - NumRefs(St', d)

\* what is left of a count after n decrements
CountLess(c, n) == IF c > n THEN c - n ELSE 0

\* C32: when gc() frees Objects or Arrays that hold a Bytes handle, it lowers
\* the Bytes entry's count by one for each such slot, besides the decrements
\* queued for it; a Bytes entry that only freed containers referenced is
\* freed by the same gc().
C32_BytesReleasedWithContainer ==
    [][GcReturns =>
         \A d \in BytesValues :
            TargetLive(lastOp.before, d) /\ SlotsFreed(d) > 0
              => CountOf(St', d) = CountLess(CountOf(lastOp.before, d),
                                             Queued(lastOp.before, d) + SlotsFreed(d))]_vars

----------------------------------------------------------------------------
(* C33 *)

\* the step is a gc() that directly follows a call that took a handle value
\* out of an array while no decrement was pending
GcAfterTake(op) ==
    /\ lastOp.op = op
    /\ IsHandle(lastOp.old)
    /\ lastOp.quiet
    /\ \E ord \in KeyOrders : Gc(ord)

\* the reference the slot held has been released exactly once
ReleasedOnce == CountOf(St', lastOp.old) = lastOp.cold - 1

\* C33: after pop_property took a handle value out of an array and the
\* caller let it go out of scope, the next gc() lowers the target's count by
\* exactly one, as it does after remove_property and remove_data.
C33_PopReleasesOnce ==
    [][/\ GcAfterTake("a.pop_property") => ReleasedOnce
       /\ GcAfterTake("a.remove_property") => ReleasedOnce
       /\ GcAfterTake("a.remove_data") => ReleasedOnce]_vars

\* what holds: remove_property and remove_data release the slot's reference
C33_RemoveReleasesOnce ==
    [][/\ GcAfterTake("a.remove_property") => ReleasedOnce
       /\ GcAfterTake("a.remove_data") => ReleasedOnce]_vars

----------------------------------------------------------------------------
(* C34 *)

\* a gc() run with no other thread, from the state before the step
GcCall == \E ord \in KeyOrders : Gc(ord)

QueuesEmpty(s) == s.od = <<>> /\ s.ad = <<>> /\ s.bd = <<>>

\* the decrements owed to d when gc() is called: the queued ones and one for
\* each slot naming d in a container that the gc() frees
OwedAtCall(d) == Queued(St, d) + (NumRefs(St, d) - NumRefs(St', d))

\* every decrement owed to the entries of the given kinds has been applied
OwedApplied(kinds) ==
    \A d \in AllHandles :
        d.t \in kinds /\ TargetLive(St, d)
          => CountOf(St', d) = CountLess(CountOf(St, d), OwedAtCall(d))

\* a gc() from the state the step leaves changes no count and frees no entry
SecondGcIdle == \A ord \in KeyOrders : NdataGc(St', ord) = St'

\* C34: when ndata::gc() returns, the three pending queues are empty, every
\* decrement owed at the time of the call (queued, or cascading from a freed
\* parent) has been applied, and a second gc() right after changes nothing.
C34_GcSettlesAllOwed ==
    [][GcCall => /\ QueuesEmpty(St')
                 /\ OwedApplied(Kinds)
                 /\ SecondGcIdle]_vars

\* what holds: the queues are empty, the decrements owed to Objects and
\* Arrays are applied, and a second gc() changes nothing
C34_GcSettlesContainers ==
    [][GcCall => /\ QueuesEmpty(St')
                 /\ OwedApplied({"DObject", "DArray"})
                 /\ SecondGcIdle]_vars

----------------------------------------------------------------------------
(* C35 *)

\* between the two states only the count of d differs, and it is one lower:
\* d and every other entry stay live with the same contents, no other count
\* changes, nothing is freed and nothing is queued
OnlyLowered(d) ==
    /\ CountOf(St', d) = CountOf(St, d) - 1
    /\ LiveSet(St') = LiveSet(St)
    /\ \A e \in LiveSet(St) : ContentsOf(St', e) = ContentsOf(St, e)
    /\ \A e \in AllHandles \ {d} : CountOf(St', e) = CountOf(St, e)
    /\ odrop' = odrop /\ adrop' = adrop /\ bdrop' = bdrop

\* C35: when gc() processes a queued index whose entry has count > 1, it
\* lowers that entry's count by exactly one and changes nothing else: the
\* entry stays live with the same contents, no child's count changes, no
\* entry is freed, and the delete makes no further call.
C35_SharedEntryOnlyLowered ==
    [][DeleteStep /\ CountOf(St, NextDelete) > 1
         => OnlyLowered(NextDelete) /\ thr'.todo = Tail(thr.todo)]_vars

\* a running gc() has lowered the count of a queued entry that other
\* references share and that holds a handle child, and the entry is live
C35_Witness ==
    /\ GcRunning
    /\ \E d \in AllHandles :
          /\ d.t # "DBytes"
          /\ Queued(lastOp.before, d) > 0
          /\ CountOf(lastOp.before, d) > 1
          /\ TargetLive(St, d)
          /\ CountOf(St, d) = CountOf(lastOp.before, d) - 1
          /\ Children(St, d) # {}

----------------------------------------------------------------------------
(* C36 *)

\* C36: a get_object / get_array / get_bytes that returns, while other
\* threads remove or overwrite the entry, collect and create containers,
\* returns a live handle to the entry that was stored under the key or index
\* when it read it, never to another entry that has taken over the index.
C36_GetReturnsStoredEntry ==
    lastOp.op = "get_handle" =>
        /\ TargetLive(St, lastOp.data)
        /\ lastOp.cnew = lastOp.cold

\* what holds: the handle returned names a live entry
C36_GetReturnsLive ==
    lastOp.op = "get_handle" => TargetLive(St, lastOp.data)

----------------------------------------------------------------------------
(* C37 *)

\* the threads whose push_unique(b) on array ref has returned
UniqueDone(ref, b) ==
    {t \in Threads : thr[t].pc = "done" /\ thr[t].ref = ref /\ thr[t].d = b}

\* how many times the vec holds b
Occurrences(vec, b) == Cardinality({n \in 1 .. Len(vec) : vec[n] = b})

\* every thread has made its call and returned, at least two of them called
\* push_unique(b) on array ref, and the array did not hold b when the
\* threads were started
UniqueRaced(ref, b) ==
    /\ thr # <<>>
    /\ \A t \in Threads : thr[t].pc = "done"
    /\ Cardinality(UniqueDone(ref, b)) >= 2
    /\ ~VecAny(HeapGet(mhist.before.ah, ref), b)

\* the pushes of b, into any array, that returned true
UniquePushed(b) == {t \in Threads : thr[t].pc = "done" /\ thr[t].d = b /\ thr[t].out}

\* C37: when threads concurrently call push_unique with equal values on the
\* same Array that does not hold the value, exactly one call returns true,
\* the Array ends up holding the value exactly once, and a handle value's
\* target has its count one higher than before for that push (with two
\* threads: exactly one higher than before).
C37_PushUniqueOnce ==
    \A ref \in Slots, b \in HandleValues \cup Scalars :
        UniqueRaced(ref, b) =>
            /\ Cardinality({t \in UniqueDone(ref, b) : thr[t].out}) = 1
            /\ Occurrences(HeapGet(aheap, ref), b) = 1
            /\ IsHandle(b) =>
                  CountOf(St, b) = CountOf(mhist.before, b) + Cardinality(UniquePushed(b))

\* two threads raced on a handle value: both passed the first look and
\* raised the count, one pushed and the other rolled back
C37_Witness ==
    /\ thr # <<>>
    /\ \E ref \in Slots, b \in HandleValues :
          /\ UniqueRaced(ref, b)
          /\ b.t # "DArray"
          /\ \E t \in UniqueDone(ref, b) : ~thr[t].out
          /\ CountOf(St, b) = CountOf(mhist.before, b) + 1

----------------------------------------------------------------------------
(* C38 *)

\* the gc() leaves live every entry the host holds a handle to, with a count
\* that covers the handles and the slots naming it
GcSparesHeld ==
    \A d \in AllHandles :
        held[d.t][d.v] > 0 /\ TargetLive(St, d) =>
            /\ TargetLive(St', d)
            /\ CountOf(St', d) >= held[d.t][d.v] + NumRefs(St', d)

\* C38: a failed object_from_string or array_from_string releases the
\* containers it built exactly once: a later gc() neither frees nor
\* decrements below its references an entry that was created after the
\* failed parse on an index the parse had used.
C38_FailedParseReleasesOnce ==
    [][GcCall => GcSparesHeld]_vars

\* what holds: as long as no parse has failed, gc() spares what the host holds
C38_NoFailureNoHarm ==
    [][GcCall /\ ~mhist.failed => GcSparesHeld]_vars

----------------------------------------------------------------------------
(* C39 *)

\* the step is a set_property or push_property through a handle whose
\* container is not live, with a value of one of the given kinds
StaleStep(ops, kinds) ==
    \E op \in ops, ref \in Slots, key \in Keys, id \in 0 .. (MaxLen - 1), data \in HostValues :
        data.t \in kinds /\ StaleCall(op, ref, key, id, data)

\* the call returns and has changed no entry, no count and no queue
ReturnsUnchanged == ret' # Hang /\ St' = St

\* C39: set_property or push_property through a handle whose container is no
\* longer live returns without inserting anything and leaves the count of a
\* handle-valued argument's target, and every other count, as before the
\* call, whichever kind (Object, Array or Bytes) the argument is.
C39_StaleCallChangesNothing ==
    [][StaleStep(StaleOps, Kinds \cup {"DInt"}) => ReturnsUnchanged]_vars

\* what holds: DataObject::set_property with an Object or scalar value, and
\* the DataArray calls with an Object, Bytes or scalar value
C39_RolledBackArms ==
    [][(\/ StaleStep({"o.set_property"}, {"DObject", "DInt"})
        \/ StaleStep({"a.set_property", "a.push_property"}, {"DObject", "DBytes", "DInt"}))
         => ReturnsUnchanged]_vars

----------------------------------------------------------------------------
(* C40 *)

\* the live streams the host holds a handle to
HeldStreams == {ref \in Slots : held["DBytes"][ref] > 0 /\ HeapContainsKey(bheap, ref)}

\* the stream write(buf) / try_write(buf) leaves
WriteLeaves(stream, buf) ==
    IF WriteAccepts(stream) THEN StreamExtend(stream, buf) ELSE stream
TryWriteLeaves(stream, buf) ==
    IF TryWriteAccepts(stream) THEN StreamExtend(stream, buf) ELSE stream

\* write and try_write refuse in the same states (false / StreamNotWritable)
\* and leave the same bytes and flags
WritesAgree(stream) ==
    /\ WriteAccepts(stream) = TryWriteAccepts(stream)
    /\ \A buf \in Bufs : WriteLeaves(stream, buf) = TryWriteLeaves(stream, buf)

\* C40: in every state of a live stream the two variants of an operation
\* agree: try_write returns StreamNotWritable exactly when write returns
\* false, try_read returns StreamNotReadable exactly when read panics, and
\* otherwise both variants leave the same bytes, read_open and write_open.
\* (read and try_read refuse on the same test, ~read_open, and share the body
\* StreamRead; the test and the effect of the write variants are compared.)
C40_VariantsAgree ==
    \A ref \in HeldStreams : WritesAgree(HeapGet(bheap, ref))

\* what holds: the write variants agree on every stream whose read end is open
C40_AgreeWhileReadOpen ==
    \A ref \in HeldStreams :
        HeapGet(bheap, ref).read_open => WritesAgree(HeapGet(bheap, ref))

====
